---- MODULE Spec2Model ----
(***************************************************************************)
(* A model of the data exporter: the ExportStrategy template method, the   *)
(* JSON and CSV strategies, the strategy registry (ExportStrategyFactory)  *)
(* and the DataExporter facade.                                            *)
(*                                                                         *)
(* JavaScript strings are sequences of one-character strings; JavaScript   *)
(* values are tagged records [t |-> <type tag>, v |-> <payload>]; plain    *)
(* objects keep their entries in insertion order as a sequence of          *)
(* <<key, value>> pairs; option objects are functions from option name to  *)
(* value whose DOMAIN is the set of own properties.                        *)
(***************************************************************************)
EXTENDS Integers, Sequences, FiniteSets, TLC

(***************************************************************************)
(* Bounds of the model.                                                    *)
(***************************************************************************)
MaxCalls == 1
MaxRegister == 2
MaxClock == 1

(***************************************************************************)
(* JavaScript values.                                                      *)
(***************************************************************************)
Null == [t |-> "null"]
Undefined == [t |-> "undefined"]
Num(n) == [t |-> "number", v |-> n]
Bool(b) == [t |-> "boolean", v |-> b]
Str(s) == [t |-> "string", v |-> s]
BigInt(n) == [t |-> "bigint", v |-> n]
DateVal(ms) == [t |-> "date", v |-> ms]
Arr(items) == [t |-> "array", v |-> items]
Obj(entries) == [t |-> "object", v |-> entries]

\* ToBoolean: what `!x`, `x && ...` and `if (x)` test
Truthy(x) ==
  CASE x.t = "null" -> FALSE
    [] x.t = "undefined" -> FALSE
    [] x.t = "boolean" -> x.v
    [] x.t = "number" -> x.v # 0
    [] x.t = "bigint" -> x.v # 0
    [] x.t = "string" -> Len(x.v) > 0
    [] OTHER -> TRUE

\* the typeof operator
TypeOf(x) ==
  CASE x.t \in {"null", "array", "object", "date"} -> "object"
    [] OTHER -> x.t

\* Array.isArray
IsArray(x) == x.t = "array"

(***************************************************************************)
(* Strings.                                                                *)
(***************************************************************************)
UpperChars == <<"A","B","C","D","E","F","G","H","I","J","K","L","M",
                "N","O","P","Q","R","S","T","U","V","W","X","Y","Z">>
LowerChars == <<"a","b","c","d","e","f","g","h","i","j","k","l","m",
                "n","o","p","q","r","s","t","u","v","w","x","y","z">>
DigitChars == <<"0","1","2","3","4","5","6","7","8","9">>

\* String.prototype.toLowerCase
ToLowerCase(s) ==
  [i \in 1..Len(s) |->
     IF \E k \in 1..Len(UpperChars) : UpperChars[k] = s[i]
       THEN LowerChars[CHOOSE k \in 1..Len(UpperChars) : UpperChars[k] = s[i]]
       ELSE s[i]]

\* String.prototype.includes for a one-character needle
IncludesChar(s, c) == \E i \in 1..Len(s) : s[i] = c

\* String.prototype.includes
Includes(s, sub) ==
  \E i \in 1..(Len(s) - Len(sub) + 1) : SubSeq(s, i, i + Len(sub) - 1) = sub

\* Array.prototype.join on an array of strings
RECURSIVE Join(_, _)
Join(parts, sep) ==
  IF Len(parts) = 0 THEN <<>>
  ELSE IF Len(parts) = 1 THEN parts[1]
  ELSE parts[1] \o sep \o Join(Tail(parts), sep)

\* String(n) for the non-negative integers of the model
RECURSIVE NumToString(_)
NumToString(n) ==
  IF n < 10 THEN <<DigitChars[n + 1]>>
  ELSE NumToString(n \div 10) \o <<DigitChars[(n % 10) + 1]>>

\* Date.prototype.toISOString; the model's instants are whole seconds 0..9 of
\* 1970-01-01T00:00
ToISOString(ms) ==
  <<"1","9","7","0","-","0","1","-","0","1","T","0","0",":","0","0",":","0">>
    \o <<DigitChars[ms + 1]>> \o <<".","0","0","0","Z">>

(***************************************************************************)
(* String literals of the program and of the model's inputs.               *)
(***************************************************************************)
S_json == <<"j","s","o","n">>
S_csv == <<"c","s","v">>
S_xml == <<"x","m","l">>
S_JSON == <<"J","S","O","N">>
S_Csv == <<"C","s","v">>
S_utf8 == <<"u","t","f","8">>
S_latin1 == <<"l","a","t","i","n","1">>
S_iso == <<"i","s","o">>
S_metadata == <<"m","e","t","a","d","a","t","a">>
S_data == <<"d","a","t","a">>
S_exportedAt == <<"e","x","p","o","r","t","e","d","A","t">>
S_format == <<"f","o","r","m","a","t">>
S_recordCount == <<"r","e","c","o","r","d","C","o","u","n","t">>
S_exporter == <<"e","x","p","o","r","t","e","r">>
S_exporterId == <<"D","a","t","a","E","x","p","o","r","t","e","r"," ",
                  "v","1",".","0",".","0">>
S_export == <<"e","x","p","o","r","t">>
S_exportsDir == <<".","/","e","x","p","o","r","t","s">>
S_cwd == <<"/","w">>

(***************************************************************************)
(* Option objects.                                                         *)
(***************************************************************************)
NoOptions == [k \in {} |-> Null]

\* property read o[k]: undefined when o has no such property
Get(o, k) == IF k \in DOMAIN o THEN o[k] ELSE Undefined

\* object spread { ...a, ...b }
Merge(a, b) ==
  [k \in (DOMAIN a) \cup (DOMAIN b) |-> IF k \in DOMAIN b THEN b[k] ELSE a[k]]

(***************************************************************************)
(* Errors and step results.                                                *)
(***************************************************************************)
Ok(x) == [ok |-> TRUE, value |-> x]
Throw(name, message) == [ok |-> FALSE, error |-> [name |-> name, message |-> message]]

(***************************************************************************)
(* Entries of plain objects.                                               *)
(***************************************************************************)
HasKey(entries, key) == \E i \in 1..Len(entries) : entries[i][1] = key

\* entries[key] = value: an existing property keeps its position
SetEntry(entries, key, value) ==
  IF HasKey(entries, key)
    THEN [i \in 1..Len(entries) |->
            IF entries[i][1] = key THEN <<key, value>> ELSE entries[i]]
    ELSE Append(entries, <<key, value>>)

\* Object.entries: own enumerable string-keyed properties
ObjectEntries(x) ==
  CASE x.t = "object" -> x.v
    [] x.t = "array" -> [i \in 1..Len(x.v) |-> <<NumToString(i - 1), x.v[i]>>]
    [] x.t = "string" -> [i \in 1..Len(x.v) |-> <<NumToString(i - 1), Str(<<x.v[i]>>)>>]
    [] OTHER -> <<>>

\* Object.keys
ObjectKeys(x) == [i \in 1..Len(ObjectEntries(x)) |-> ObjectEntries(x)[i][1]]

\* Object.assign(target, source) on the entries of target
RECURSIVE AssignEntries(_, _)
AssignEntries(entries, src) ==
  IF Len(src) = 0 THEN entries
  ELSE AssignEntries(SetEntry(entries, src[1][1], src[1][2]), Tail(src))

\* property read x[key] of a value that is not null or undefined
GetProp(x, key) ==
  LET es == ObjectEntries(x) IN
  IF HasKey(es, key)
    THEN es[CHOOSE i \in 1..Len(es) : es[i][1] = key][2]
    ELSE Undefined

(***************************************************************************)
(* JSON.stringify.                                                         *)
(***************************************************************************)
\* JSON.stringify throws a TypeError on a BigInt anywhere in the value
RECURSIVE JsonSerializable(_)
JsonSerializable(x) ==
  CASE x.t = "bigint" -> FALSE
    [] x.t = "array" -> \A i \in 1..Len(x.v) : JsonSerializable(x.v[i])
    [] x.t = "object" -> \A i \in 1..Len(x.v) : JsonSerializable(x.v[i][2])
    [] OTHER -> TRUE

\* the quoted form of a string: quote, backslash and line break are escaped
JsonQuote(s) ==
  LET esc(c) == CASE c = "\"" -> <<"\\", "\"">>
                  [] c = "\\" -> <<"\\", "\\">>
                  [] c = "\n" -> <<"\\", "n">>
                  [] c = "\r" -> <<"\\", "r">>
                  [] OTHER -> <<c>>
  IN <<"\"">> \o Join([i \in 1..Len(s) |-> esc(s[i])], <<>>) \o <<"\"">>

RECURSIVE Spaces(_)
Spaces(n) == IF n = 0 THEN <<>> ELSE <<" ">> \o Spaces(n - 1)

\* the entries JSON.stringify writes for an object: a property whose value is
\* undefined is left out
RECURSIVE JsonKept(_)
JsonKept(entries) ==
  IF Len(entries) = 0 THEN <<>>
  ELSE IF entries[1][2].t = "undefined" THEN JsonKept(Tail(entries))
  ELSE <<entries[1]>> \o JsonKept(Tail(entries))

\* JSON.stringify(x, null, gap) of a serializable value, at nesting level
\* `level`; gap = 0 is the compact form
RECURSIVE JsonText(_, _, _)
JsonText(x, gap, level) ==
  LET inner == Spaces(gap * (level + 1))
      outer == Spaces(gap * level)
      open(b) == IF gap = 0 THEN <<b>> ELSE <<b, "\n">> \o inner
      close(b) == IF gap = 0 THEN <<b>> ELSE <<"\n">> \o outer \o <<b>>
      sep == IF gap = 0 THEN <<",">> ELSE <<",", "\n">> \o inner
      colon == IF gap = 0 THEN <<":">> ELSE <<":", " ">>
  IN
  CASE x.t \in {"null", "undefined"} -> <<"n","u","l","l">>
    [] x.t = "boolean" -> IF x.v THEN <<"t","r","u","e">> ELSE <<"f","a","l","s","e">>
    [] x.t = "number" -> NumToString(x.v)
    [] x.t = "string" -> JsonQuote(x.v)
    [] x.t = "date" -> JsonQuote(ToISOString(x.v))
    [] x.t = "array" ->
         IF Len(x.v) = 0 THEN <<"[", "]">>
         ELSE open("[")
              \o Join([i \in 1..Len(x.v) |-> JsonText(x.v[i], gap, level + 1)], sep)
              \o close("]")
    [] x.t = "object" ->
         LET kept == JsonKept(x.v) IN
         IF Len(kept) = 0 THEN <<"{", "}">>
         ELSE open("{")
              \o Join([i \in 1..Len(kept) |->
                         JsonQuote(kept[i][1]) \o colon
                           \o JsonText(kept[i][2], gap, level + 1)], sep)
              \o close("}")

\* JSON.stringify(x, null, gap)
JsonStringify(x, gap) ==
  IF JsonSerializable(x)
    THEN Ok(JsonText(x, gap, 0))
    ELSE Throw("TypeError", "Do not know how to serialize a BigInt")

(***************************************************************************)
(* Strategy classes.  JsonExportStrategy and CsvExportStrategy are the     *)
(* built-in strategies; CustomStrategy is a caller-defined subclass of     *)
(* ExportStrategy that overrides transform and generateContent;            *)
(* PlainClass is a caller-defined class that does not extend               *)
(* ExportStrategy; ExportStrategy is the abstract base itself.             *)
(***************************************************************************)
Classes ==
  <<"JsonExportStrategy", "CsvExportStrategy", "CustomStrategy", "PlainClass",
    "ExportStrategy">>

\* does cls.prototype have ExportStrategy.prototype on its prototype chain
ExtendsExportStrategy(cls) ==
  cls \in {"JsonExportStrategy", "CsvExportStrategy", "CustomStrategy"}

\* ExportStrategy.getDefaultOptions
BaseDefaultOptions == [outputPath |-> Null, encoding |-> Str(S_utf8)]

\* JsonExportStrategy.getDefaultOptions
JsonDefaultOptions ==
  Merge(BaseDefaultOptions,
        [prettify |-> Bool(TRUE), includeMetadata |-> Bool(TRUE),
         dateFormat |-> Str(S_iso)])

\* CsvExportStrategy.getDefaultOptions
CsvDefaultOptions ==
  Merge(BaseDefaultOptions,
        [delimiter |-> Str(<<",">>), includeHeaders |-> Bool(TRUE),
         quoteStrings |-> Bool(TRUE), escapeQuotes |-> Bool(TRUE),
         dateFormat |-> Str(S_iso), nullValue |-> Str(<<>>),
         flattenObjects |-> Bool(TRUE), maxDepth |-> Num(3)])

\* this.getDefaultOptions() by dynamic dispatch
GetDefaultOptions(cls) ==
  CASE cls = "JsonExportStrategy" -> JsonDefaultOptions
    [] cls = "CsvExportStrategy" -> CsvDefaultOptions
    [] OTHER -> BaseDefaultOptions

\* new cls(options): the options of the new strategy object, or the error of
\* the constructor
Construct(cls, options) ==
  CASE cls = "ExportStrategy" ->
         Throw("Error", "ExportStrategy cannot be instantiated directly")
    [] cls = "PlainClass" -> Ok(NoOptions)
    [] OTHER -> Ok(Merge(GetDefaultOptions(cls), options))

(***************************************************************************)
(* validate.                                                               *)
(***************************************************************************)
\* ExportStrategy.validate
BaseValidate(data) ==
  IF ~Truthy(data)
    THEN Throw("DataExportError", "Data cannot be null or undefined")
    ELSE Ok(Undefined)

\* JsonExportStrategy.validate
JsonValidate(data) ==
  IF ~BaseValidate(data).ok THEN BaseValidate(data)
  ELSE IF ~JsonStringify(data, 0).ok
    THEN Throw("DataExportError", "Data is not JSON serializable")
  ELSE Ok(Undefined)

\* CsvExportStrategy.validate
CsvValidate(data) ==
  IF ~BaseValidate(data).ok THEN BaseValidate(data)
  ELSE IF ~IsArray(data) /\ TypeOf(data) # "object"
    THEN Throw("DataExportError", "CSV export requires object or array of objects")
  ELSE Ok(Undefined)

\* this.validate(data) by dynamic dispatch
Validate(cls, data) ==
  CASE cls = "JsonExportStrategy" -> JsonValidate(data)
    [] cls = "CsvExportStrategy" -> CsvValidate(data)
    [] OTHER -> BaseValidate(data)

(***************************************************************************)
(* JSON strategy: transform and generateContent.                           *)
(***************************************************************************)
\* JsonTransform with a plausible slip: a single record is wrapped in the
\* envelope {metadata, data} like a sequence
JsonTransformEnvelopeAlways(data, options, clock) ==
  LET copy == IF IsArray(data) THEN data ELSE Obj(ObjectEntries(data))
      metadata ==
        Obj(<< <<S_exportedAt, Str(ToISOString(clock))>>,
               <<S_format, Str(S_json)>>,
               <<S_recordCount, Num(IF IsArray(data) THEN Len(data.v) ELSE 1)>>,
               <<S_exporter, Str(S_exporterId)>> >>)
  IN
  IF Truthy(Get(options, "includeMetadata"))
    THEN Ok(Obj(<< <<S_metadata, metadata>>, <<S_data, copy>> >>))
    ELSE Ok(copy)

\* JsonTransform with a plausible slip: recordCount of a single record counts
\* its fields
JsonTransformCountsFields(data, options, clock) ==
  LET copy == IF IsArray(data) THEN data ELSE Obj(ObjectEntries(data))
      metadata ==
        Obj(<< <<S_exportedAt, Str(ToISOString(clock))>>,
               <<S_format, Str(S_json)>>,
               <<S_recordCount, Num(Len(ObjectEntries(data)))>>,
               <<S_exporter, Str(S_exporterId)>> >>)
  IN
  IF Truthy(Get(options, "includeMetadata"))
    THEN IF IsArray(copy)
           THEN Ok(Obj(<< <<S_metadata, metadata>>, <<S_data, copy>> >>))
           ELSE Ok(Obj(SetEntry(copy.v, S_metadata, metadata)))
    ELSE Ok(copy)

\* JsonExportStrategy.transform, at clock value `clock`
JsonTransform(data, options, clock) ==
  LET copy == IF IsArray(data) THEN data ELSE Obj(ObjectEntries(data))
      metadata ==
        Obj(<< <<S_exportedAt, Str(ToISOString(clock))>>,
               <<S_format, Str(S_json)>>,
               <<S_recordCount, Num(IF IsArray(data) THEN Len(data.v) ELSE 1)>>,
               <<S_exporter, Str(S_exporterId)>> >>)
  IN
  IF Truthy(Get(options, "includeMetadata"))
    THEN IF IsArray(copy)
           THEN Ok(Obj(<< <<S_metadata, metadata>>, <<S_data, copy>> >>))
           ELSE Ok(Obj(SetEntry(copy.v, S_metadata, metadata)))
    ELSE Ok(copy)

\* JsonExportStrategy.generateContent
JsonGenerateContent(data, options) ==
  LET r == JsonStringify(data, IF Truthy(Get(options, "prettify")) THEN 2 ELSE 0) IN
  IF r.ok THEN r
  ELSE Throw("DataExportError", "JSON serialization failed")

(***************************************************************************)
(* CSV strategy: flattenObject, transform, formatCsvValue, formatCsvRow    *)
(* and generateContent.                                                    *)
(***************************************************************************)
\* CsvExportStrategy.flattenObject; FlattenEntries is its for-loop over
\* Object.entries(obj), `flattened` the object built so far
RECURSIVE FlattenObject(_, _, _, _)
RECURSIVE FlattenEntries(_, _, _, _, _)
FlattenObject(obj, prefix, maxDepth, currentDepth) ==
  IF \/ currentDepth >= maxDepth
     \/ ~Truthy(obj)
     \/ TypeOf(obj) # "object"
     \/ IsArray(obj)
    THEN obj
    ELSE Obj(FlattenEntries(ObjectEntries(obj), prefix, maxDepth, currentDepth, <<>>))

\* FlattenEntries with a plausible slip: the test of the value lacks
\* !Array.isArray(value), so the indices of a sequence become columns
RECURSIVE FlattenEntriesIntoArrays(_, _, _, _, _)
FlattenEntriesIntoArrays(entries, prefix, maxDepth, currentDepth, flattened) ==
  IF Len(entries) = 0 THEN flattened
  ELSE
    LET key == entries[1][1]
        value == entries[1][2]
        newKey == IF Len(prefix) > 0 THEN prefix \o <<".">> \o key ELSE key
        next ==
          IF Truthy(value) /\ TypeOf(value) = "object"
            THEN AssignEntries(flattened,
                   ObjectEntries(FlattenObject(value, newKey, maxDepth, currentDepth + 1)))
            ELSE SetEntry(flattened, newKey, value)
    IN FlattenEntriesIntoArrays(Tail(entries), prefix, maxDepth, currentDepth, next)

FlattenEntries(entries, prefix, maxDepth, currentDepth, flattened) ==
  IF Len(entries) = 0 THEN flattened
  ELSE
    LET key == entries[1][1]
        value == entries[1][2]
        newKey == IF Len(prefix) > 0 THEN prefix \o <<".">> \o key ELSE key
        next ==
          IF Truthy(value) /\ TypeOf(value) = "object" /\ ~IsArray(value)
            THEN AssignEntries(flattened,
                   ObjectEntries(FlattenObject(value, newKey, maxDepth, currentDepth + 1)))
            ELSE SetEntry(flattened, newKey, value)
    IN FlattenEntries(Tail(entries), prefix, maxDepth, currentDepth, next)

\* the maxDepth argument of the flattenObject call in transform: the default
\* parameter value 3 stands in for undefined
MaxDepthArg(options) ==
  IF Get(options, "maxDepth").t = "undefined" THEN 3 ELSE Get(options, "maxDepth").v

\* CsvExportStrategy.transform
CsvTransform(data, options) ==
  LET records == IF IsArray(data) THEN data.v ELSE <<data>> IN
  IF Truthy(Get(options, "flattenObjects"))
    THEN Ok(Arr([i \in 1..Len(records) |->
                   FlattenObject(records[i], <<>>, MaxDepthArg(options), 0)]))
    ELSE Ok(Arr(records))

\* Date.prototype.toString
DateToString(ms) ==
  <<"T","h","u"," ","J","a","n"," ","0","1"," ","1","9","7","0"," ",
    "0","0",":","0","0",":","0">> \o <<DigitChars[ms + 1]>>
    \o <<" ","G","M","T","+","0","0","0","0">>

\* String(x)
RECURSIVE StringOf(_)
StringOf(x) ==
  CASE x.t = "null" -> <<"n","u","l","l">>
    [] x.t = "undefined" -> <<"u","n","d","e","f","i","n","e","d">>
    [] x.t = "boolean" -> IF x.v THEN <<"t","r","u","e">> ELSE <<"f","a","l","s","e">>
    [] x.t \in {"number", "bigint"} -> NumToString(x.v)
    [] x.t = "string" -> x.v
    [] x.t = "date" -> DateToString(x.v)
    [] x.t = "array" ->
         Join([i \in 1..Len(x.v) |->
                 IF x.v[i].t \in {"null", "undefined"} THEN <<>> ELSE StringOf(x.v[i])],
              <<",">>)
    [] OTHER -> <<"[","o","b","j","e","c","t"," ","O","b","j","e","c","t","]">>

\* Array.prototype.join: null and undefined elements give the empty string
ArrayJoin(items, sep) ==
  Join([i \in 1..Len(items) |->
          IF items[i].t \in {"null", "undefined"} THEN <<>> ELSE StringOf(items[i])],
       sep)

\* stringValue.replace(/"/g, '""')
DoubleQuotes(s) ==
  Join([i \in 1..Len(s) |-> IF s[i] = "\"" THEN <<"\"", "\"">> ELSE <<s[i]>>], <<>>)

\* CsvExportStrategy.formatCsvValue
FormatCsvValue(value, options) ==
  CASE value.t \in {"null", "undefined"} -> Ok(Get(options, "nullValue").v)
    [] value.t = "date" ->
         Ok(IF Get(options, "dateFormat") = Str(S_iso)
              THEN ToISOString(value.v) ELSE DateToString(value.v))
    [] value.t = "array" -> Ok(<<"\"">> \o ArrayJoin(value.v, <<";", " ">>) \o <<"\"">>)
    [] value.t = "object" ->
         LET r == JsonStringify(value, 0) IN
         IF r.ok THEN Ok(<<"\"">> \o r.value \o <<"\"">>) ELSE r
    [] OTHER ->
         LET s0 == StringOf(value)
             s1 == IF Truthy(Get(options, "escapeQuotes")) /\ IncludesChar(s0, "\"")
                     THEN DoubleQuotes(s0) ELSE s0
             delimiter == Get(options, "delimiter").v
         IN
         Ok(IF /\ Truthy(Get(options, "quoteStrings"))
               /\ \/ Includes(s1, delimiter)
                  \/ IncludesChar(s1, "\"")
                  \/ IncludesChar(s1, "\n")
                  \/ IncludesChar(s1, "\r")
              THEN <<"\"">> \o s1 \o <<"\"">>
              ELSE s1)

\* CsvExportStrategy.formatCsvRow
FormatCsvRow(values, options) == Join(values, Get(options, "delimiter").v)

\* AllKeys with a plausible slip: the headers are the keys of the first record
AllKeysOfFirstRecord(records, seen) ==
  IF Len(records) = 0 THEN seen
  ELSE IF Truthy(records[1]) /\ TypeOf(records[1]) = "object"
    THEN ObjectKeys(records[1])
  ELSE seen

\* the forEach that fills allKeys in generateContent: the keys of the
\* object-typed elements, each once, in order of first appearance
RECURSIVE AllKeys(_, _)
AllKeys(records, seen) ==
  IF Len(records) = 0 THEN seen
  ELSE
    LET obj == records[1]
        ks == IF Truthy(obj) /\ TypeOf(obj) = "object" THEN ObjectKeys(obj) ELSE <<>>
        add[n \in 0..Len(ks)] ==
          IF n = 0 THEN seen
          ELSE IF \E j \in 1..Len(add[n - 1]) : add[n - 1][j] = ks[n]
                 THEN add[n - 1] ELSE Append(add[n - 1], ks[n])
    IN AllKeys(Tail(records), add[Len(ks)])

\* the data row of one element in generateContent: reading a property of null
\* or undefined throws a TypeError
CsvDataRow(obj, headers, options) ==
  LET cells == [i \in 1..Len(headers) |->
                  IF obj.t \in {"null", "undefined"}
                    THEN Throw("TypeError", "Cannot read properties of null")
                    ELSE FormatCsvValue(GetProp(obj, headers[i]), options)]
  IN
  IF \E i \in 1..Len(headers) : ~cells[i].ok
    THEN cells[CHOOSE i \in 1..Len(headers) :
                 ~cells[i].ok /\ \A j \in 1..(i - 1) : cells[j].ok]
    ELSE Ok(FormatCsvRow([i \in 1..Len(headers) |-> cells[i].value], options))

\* CsvExportStrategy.generateContent
CsvGenerateContent(data, options) ==
  IF ~IsArray(data) \/ Len(data.v) = 0 THEN Ok(<<>>)
  ELSE
    LET headers == AllKeys(data.v, <<>>)
        dataRows == [i \in 1..Len(data.v) |-> CsvDataRow(data.v[i], headers, options)]
        rows == (IF Truthy(Get(options, "includeHeaders"))
                   THEN <<FormatCsvRow(headers, options)>> ELSE <<>>)
                \o [i \in 1..Len(data.v) |-> dataRows[i].value]
    IN
    IF \E i \in 1..Len(data.v) : ~dataRows[i].ok
      THEN dataRows[CHOOSE i \in 1..Len(data.v) :
                      ~dataRows[i].ok /\ \A j \in 1..(i - 1) : dataRows[j].ok]
      ELSE Ok(Join(rows, <<"\n">>))

(***************************************************************************)
(* Paths (node:path, POSIX).                                               *)
(***************************************************************************)
\* the segments of a path between its "/" separators; `cur` is the segment
\* being read
RECURSIVE Segments(_, _)
Segments(p, cur) ==
  IF Len(p) = 0 THEN <<cur>>
  ELSE IF p[1] = "/" THEN <<cur>> \o Segments(Tail(p), <<>>)
  ELSE Segments(Tail(p), Append(cur, p[1]))

\* normalization of path segments: empty and "." segments are dropped, ".."
\* drops the segment before it
RECURSIVE NormalizeSegments(_, _)
NormalizeSegments(segs, acc) ==
  IF Len(segs) = 0 THEN acc
  ELSE IF segs[1] = <<>> \/ segs[1] = <<".">> THEN NormalizeSegments(Tail(segs), acc)
  ELSE IF segs[1] = <<".", ".">>
    THEN NormalizeSegments(Tail(segs),
           IF Len(acc) = 0 THEN acc ELSE SubSeq(acc, 1, Len(acc) - 1))
  ELSE NormalizeSegments(Tail(segs), Append(acc, segs[1]))

IsAbsolute(p) == Len(p) > 0 /\ p[1] = "/"

\* path.resolve(dir, file) in the working directory S_cwd
Resolve(dir, file) ==
  LET joined ==
        IF IsAbsolute(file) THEN file
        ELSE IF IsAbsolute(dir) THEN dir \o <<"/">> \o file
        ELSE S_cwd \o <<"/">> \o dir \o <<"/">> \o file
  IN <<"/">> \o Join(NormalizeSegments(Segments(joined, <<>>), <<>>), <<"/">>)

\* path.dirname
Dirname(p) ==
  LET slashes == {i \in 1..Len(p) : p[i] = "/"} IN
  IF slashes = {} THEN <<".">>
  ELSE LET last == CHOOSE i \in slashes : \A j \in slashes : j <= i IN
       IF last = 1 THEN <<"/">> ELSE SubSeq(p, 1, last - 1)

(***************************************************************************)
(* ExportStrategyFactory.                                                  *)
(***************************************************************************)
\* strategyClass.prototype: an object
Prototype(cls) == [t |-> "prototype", v |-> cls]

\* x instanceof ExportStrategy: false for a primitive left operand
InstanceOfExportStrategy(x) == x.t = "prototype" /\ ExtendsExportStrategy(x.v)

\* the guard of register, `!strategyClass.prototype instanceof ExportStrategy`:
\* the unary ! binds tighter than instanceof, so the operand is a boolean
RegisterRejects(cls) == InstanceOfExportStrategy(Bool(~Truthy(Prototype(cls))))

\* this.strategies.set(format.toLowerCase(), strategyClass)
MapSet(map, key, value) ==
  [k \in (DOMAIN map) \cup {key} |-> IF k = key THEN value ELSE map[k]]

\* FactoryRegister with a plausible slip: the identifier is stored as given,
\* not lower-cased
FactoryRegisterCaseSensitive(map, format, cls) ==
  IF RegisterRejects(cls)
    THEN Throw("Error", "must extend ExportStrategy")
    ELSE Ok(MapSet(map, format, cls))

\* ExportStrategyFactory.register: the strategies map after the call, or the
\* error thrown
FactoryRegister(map, format, cls) ==
  IF RegisterRejects(cls)
    THEN Throw("Error", "must extend ExportStrategy")
    ELSE Ok(MapSet(map, ToLowerCase(format), cls))

\* ExportStrategyFactory.constructor and registerDefaultStrategies
DefaultStrategies ==
  FactoryRegister(
    FactoryRegister([k \in {} |-> ""], S_json, "JsonExportStrategy").value,
    S_csv, "CsvExportStrategy").value

\* FactoryCreate with a plausible slip: the identifier is looked up as given,
\* not lower-cased
FactoryCreateCaseSensitive(map, format, options) ==
  IF format \notin DOMAIN map
    THEN Throw("DataExportError", "Unsupported export format")
    ELSE LET cls == map[format]
             made == Construct(cls, options)
         IN IF made.ok THEN Ok([cls |-> cls, options |-> made.value]) ELSE made

\* ExportStrategyFactory.create: the class instantiated and the options of the
\* new strategy, or the error thrown
FactoryCreate(map, format, options) ==
  IF ToLowerCase(format) \notin DOMAIN map
    THEN Throw("DataExportError", "Unsupported export format")
    ELSE LET cls == map[ToLowerCase(format)]
             made == Construct(cls, options)
         IN IF made.ok THEN Ok([cls |-> cls, options |-> made.value]) ELSE made

\* ExportStrategyFactory.getAvailableFormats
GetAvailableFormats(map) == DOMAIN map

\* ExportStrategyFactory.isFormatSupported
IsFormatSupported(map, format) == ToLowerCase(format) \in DOMAIN map

(***************************************************************************)
(* DataExporter: constructor and generateOutputPath.                       *)
(***************************************************************************)
\* DataExporter.constructor: this.defaultOptions
ExporterDefaultOptions(options) ==
  Merge([outputDir |-> Str(S_exportsDir), createTimestamp |-> Bool(TRUE)], options)

\* s.replace(/[:.]/g, "-")
ReplaceColonDot(s) ==
  [i \in 1..Len(s) |-> IF s[i] \in {":", "."} THEN "-" ELSE s[i]]

\* DataExporter.generateOutputPath at clock value `clock`
GenerateOutputPath(format, options, clock) ==
  LET timestamp == IF Truthy(Get(options, "createTimestamp"))
                     THEN ReplaceColonDot(ToISOString(clock)) ELSE <<>>
      filename ==
        IF Truthy(Get(options, "filename"))
          THEN Get(options, "filename").v
          ELSE S_export
               \o (IF Len(timestamp) > 0 THEN <<"-">> \o timestamp ELSE <<>>)
               \o <<".">> \o format
  IN Resolve(Get(options, "outputDir").v, filename)

\* FacadeConfig with a plausible slip: the spread operands are swapped, so the
\* exporter defaults override the per-call options
FacadeConfigDefaultsWin(defaults, format, options, clock) ==
  LET config == Merge(options, defaults) IN
  IF ~Truthy(Get(config, "outputPath")) /\ Truthy(Get(config, "outputDir"))
    THEN Merge(config, [outputPath |-> Str(GenerateOutputPath(format, config, clock))])
    ELSE config

\* the merged configuration of DataExporter.export, with the synthesized
\* output path
FacadeConfig(defaults, format, options, clock) ==
  LET config == Merge(defaults, options) IN
  IF ~Truthy(Get(config, "outputPath")) /\ Truthy(Get(config, "outputDir"))
    THEN Merge(config, [outputPath |-> Str(GenerateOutputPath(format, config, clock))])
    ELSE config

(***************************************************************************)
(* Dynamic dispatch of transform and generateContent.  The behaviour of    *)
(* CustomStrategy is the caller's: its transform is the inherited default  *)
(* (returns the data) or throws, its generateContent returns a text or is  *)
(* the inherited one, which throws.                                        *)
(***************************************************************************)
S_custom == <<"<","d","/",">">>

Behaviours ==
  <<[transform |-> "default", generate |-> "returns"],
    [transform |-> "throws", generate |-> "returns"],
    [transform |-> "default", generate |-> "inherited"]>>

\* this.transform(data, config)
Transform(cls, data, config, clock, behaviour) ==
  CASE cls = "JsonExportStrategy" -> JsonTransform(data, config, clock)
    [] cls = "CsvExportStrategy" -> CsvTransform(data, config)
    [] OTHER -> IF behaviour.transform = "throws"
                  THEN Throw("Error", "transform failed")
                  ELSE Ok(data)

\* this.generateContent(transformedData, config)
GenerateContent(cls, data, config, behaviour) ==
  CASE cls = "JsonExportStrategy" -> JsonGenerateContent(data, config)
    [] cls = "CsvExportStrategy" -> CsvGenerateContent(data, config)
    [] OTHER -> IF behaviour.generate = "inherited"
                  THEN Throw("Error",
                             "generateContent must be implemented by concrete strategy")
                  ELSE Ok(S_custom)

\* the config of ExportStrategy.export: { ...this.options, ...options }
StrategyConfig(selfOptions, options) == Merge(selfOptions, options)

\* the encoding argument of fs.writeFile in saveToFile
WriteEncoding(selfOptions, config) == Get(selfOptions, "encoding")

(***************************************************************************)
(* The transforms on a heap of objects.  A heap is a sequence of cells, the *)
(* address of a cell its index; a cell is an object or an array whose      *)
(* values are primitives or references to cells.  These operators follow   *)
(* the transforms statement by statement, with every allocation and every  *)
(* property write, and tell which objects a transform writes to.           *)
(***************************************************************************)
Ref(a) == [t |-> "ref", a |-> a]

\* the heap with the object graph of value x added, and the reference to it
RECURSIVE Store(_, _)
RECURSIVE StoreAll(_, _, _)
Store(h, x) ==
  IF x.t \in {"object", "array"}
    THEN LET parts == IF x.t = "object" THEN [i \in 1..Len(x.v) |-> x.v[i][2]] ELSE x.v
             s == StoreAll(h, parts, <<>>)
             cell == IF x.t = "object"
                       THEN Obj([i \in 1..Len(x.v) |-> <<x.v[i][1], s.vals[i]>>])
                       ELSE Arr(s.vals)
         IN [h |-> Append(s.h, cell), r |-> Ref(Len(s.h) + 1)]
    ELSE [h |-> h, r |-> x]

StoreAll(h, xs, acc) ==
  IF Len(xs) = 0 THEN [h |-> h, vals |-> acc]
  ELSE LET s == Store(h, xs[1]) IN StoreAll(s.h, Tail(xs), Append(acc, s.r))

\* the value reached from r in heap h
RECURSIVE Load(_, _)
Load(h, r) ==
  IF r.t # "ref" THEN r
  ELSE IF h[r.a].t = "object"
    THEN Obj([i \in 1..Len(h[r.a].v) |-> <<h[r.a].v[i][1], Load(h, h[r.a].v[i][2])>>])
  ELSE Arr([i \in 1..Len(h[r.a].v) |-> Load(h, h[r.a].v[i])])

\* HeapJsonTransform with a plausible slip: no copy is made, transformedData is
\* the caller's object
HeapJsonTransformInPlace(h, r, options, clock) ==
  LET metadata ==
        Obj(<< <<S_exportedAt, Str(ToISOString(clock))>>,
               <<S_format, Str(S_json)>>,
               <<S_recordCount, Num(IF h[r.a].t = "array" THEN Len(h[r.a].v) ELSE 1)>>,
               <<S_exporter, Str(S_exporterId)>> >>)
      h2 == Append(h, metadata)
      m == Ref(Len(h) + 1)
  IN
  IF Truthy(Get(options, "includeMetadata"))
    THEN IF h[r.a].t = "array"
           THEN [h |-> Append(h2, Obj(<< <<S_metadata, m>>, <<S_data, r>> >>)),
                 r |-> Ref(Len(h2) + 1)]
           ELSE [h |-> [h2 EXCEPT ![r.a] = Obj(SetEntry(@.v, S_metadata, m))],
                 r |-> r]
    ELSE [h |-> h, r |-> r]

\* JsonExportStrategy.transform on the heap, for data referenced by r: the
\* spread allocates the copy, and the metadata is written to the copy
HeapJsonTransform(h, r, options, clock) ==
  LET h1 == Append(h, h[r.a])
      copy == Ref(Len(h) + 1)
      metadata ==
        Obj(<< <<S_exportedAt, Str(ToISOString(clock))>>,
               <<S_format, Str(S_json)>>,
               <<S_recordCount, Num(IF h[r.a].t = "array" THEN Len(h[r.a].v) ELSE 1)>>,
               <<S_exporter, Str(S_exporterId)>> >>)
      h2 == Append(h1, metadata)
      m == Ref(Len(h1) + 1)
  IN
  IF Truthy(Get(options, "includeMetadata"))
    THEN IF h[r.a].t = "array"
           THEN [h |-> Append(h2, Obj(<< <<S_metadata, m>>, <<S_data, copy>> >>)),
                 r |-> Ref(Len(h2) + 1)]
           ELSE [h |-> [h2 EXCEPT ![copy.a] = Obj(SetEntry(@.v, S_metadata, m))],
                 r |-> copy]
    ELSE [h |-> h1, r |-> copy]

\* `x && typeof x === "object" && !Array.isArray(x)` on the heap
IsPlainObject(h, x) ==
  \/ x.t = "date"
  \/ x.t = "ref" /\ h[x.a].t = "object"

\* Object.entries of a heap value
HeapEntries(h, x) == IF x.t = "ref" /\ h[x.a].t = "object" THEN h[x.a].v ELSE <<>>

\* CsvExportStrategy.flattenObject on the heap; HeapFlattenEntries is its
\* for-loop, f the address of `flattened`
RECURSIVE HeapFlatten(_, _, _, _, _)
RECURSIVE HeapFlattenEntries(_, _, _, _, _, _)
HeapFlatten(h, obj, prefix, maxDepth, currentDepth) ==
  IF currentDepth >= maxDepth \/ ~IsPlainObject(h, obj)
    THEN [h |-> h, r |-> obj]
    ELSE HeapFlattenEntries(Append(h, Obj(<<>>)), Len(h) + 1, HeapEntries(h, obj),
                            prefix, maxDepth, currentDepth)

HeapFlattenEntries(h, f, entries, prefix, maxDepth, currentDepth) ==
  IF Len(entries) = 0 THEN [h |-> h, r |-> Ref(f)]
  ELSE
    LET key == entries[1][1]
        value == entries[1][2]
        newKey == IF Len(prefix) > 0 THEN prefix \o <<".">> \o key ELSE key
        sub == HeapFlatten(h, value, newKey, maxDepth, currentDepth + 1)
        next ==
          IF IsPlainObject(h, value)
            THEN [sub.h EXCEPT ![f] = Obj(AssignEntries(@.v, HeapEntries(sub.h, sub.r)))]
            ELSE [h EXCEPT ![f] = Obj(SetEntry(@.v, newKey, value))]
    IN HeapFlattenEntries(next, f, Tail(entries), prefix, maxDepth, currentDepth)

\* records.map((record) => this.flattenObject(record, "", options.maxDepth))
RECURSIVE HeapFlattenAll(_, _, _, _)
HeapFlattenAll(h, records, maxDepth, acc) ==
  IF Len(records) = 0 THEN [h |-> Append(h, Arr(acc)), r |-> Ref(Len(h) + 1)]
  ELSE LET s == HeapFlatten(h, records[1], <<>>, maxDepth, 0) IN
       HeapFlattenAll(s.h, Tail(records), maxDepth, Append(acc, s.r))

\* CsvExportStrategy.transform on the heap, for data referenced by r
HeapCsvTransform(h, r, options) ==
  LET wrapped == h[r.a].t # "array"
      h1 == IF wrapped THEN Append(h, Arr(<<r>>)) ELSE h
      records == IF wrapped THEN Ref(Len(h) + 1) ELSE r
  IN
  IF Truthy(Get(options, "flattenObjects"))
    THEN HeapFlattenAll(h1, h1[records.a].v, MaxDepthArg(options), <<>>)
    ELSE [h |-> h1, r |-> records]

\* this.transform(data, config) on the heap
HeapTransform(cls, h, r, config, clock) ==
  CASE cls = "JsonExportStrategy" -> HeapJsonTransform(h, r, config, clock)
    [] cls = "CsvExportStrategy" -> HeapCsvTransform(h, r, config)
    [] OTHER -> [h |-> h, r |-> r]

\* the caller's dataset as it stands after transform has run on it: a
\* primitive has no properties to write
DataAfterTransform(cls, data, config, clock) ==
  IF data.t \notin {"object", "array"} THEN data
  ELSE LET s == Store(<<>>, data) IN
       Load(HeapTransform(cls, s.h, s.r, config, clock).h, s.r)

\* what transform returns, read from the heap
TransformedOnHeap(cls, data, config, clock) ==
  LET s == Store(<<>>, data)
      t == HeapTransform(cls, s.h, s.r, config, clock)
  IN Load(t.h, t.r)

(***************************************************************************)
(* State.                                                                  *)
(***************************************************************************)
VARIABLES
  strategies,     \* factory.strategies: lower-cased identifier -> class
  regLog,         \* history: the <<identifier, class>> of every register call
  lastRegister,   \* the most recent register call and what it did
  lastCreate,     \* the most recent factory.create call and its result
  defaultOptions, \* exporter.defaultOptions
  now,            \* the clock
  files,          \* file system: path -> [content, encoding]
  dirs,           \* file system: the directories created
  pc,             \* where the export call in flight is suspended
  call,           \* the export call in flight (or the last one)
  steps,          \* the pipeline steps that call has started, in order
  fsOps,          \* the file-system operations that call has issued, in order
  outcome,        \* what the last completed call returned or threw
  multi,          \* the toMultiple call in flight (or the last one)
  ncalls,         \* number of top-level calls made
  started,        \* history: the concurrent calls started, with the options
                  \* object of each as its caller holds it now
  suspended,      \* the calls left at an await by the event loop: number -> call
  running         \* the number of the call that pc and call describe, 0 if none

vars ==
  <<strategies, regLog, lastRegister, lastCreate, defaultOptions, now, files,
    dirs, pc, call, steps, fsOps, outcome, multi, ncalls, started, suspended,
    running>>

registryVars == <<strategies, regLog, lastRegister, lastCreate>>
fsVars == <<files, dirs>>
taskVars == <<started, suspended, running>>

NoCall == [entry |-> "none"]
NoMulti ==
  [active |-> FALSE, formats |-> <<>>, i |-> 0, results |-> <<>>, attempts |-> <<>>]
NoOutcome == [kind |-> "none"]
Returned(mode, value) == [kind |-> "returned", mode |-> mode, value |-> value]
Threw(error, step) == [kind |-> "threw", error |-> error, step |-> step]

\* no export is in flight: a new top-level call can start
Idle == pc \in {"idle", "returned", "threw"} /\ ~multi.active

\* the state after construction of a DataExporter with `options`
InitWith(options) ==
  /\ strategies = DefaultStrategies
  /\ regLog = << <<S_json, "JsonExportStrategy">>, <<S_csv, "CsvExportStrategy">> >>
  /\ lastRegister = [kind |-> "none"]
  /\ lastCreate = [kind |-> "none"]
  /\ defaultOptions = ExporterDefaultOptions(options)
  /\ now = 0
  /\ files = [p \in {} |-> <<>>]
  /\ dirs = {}
  /\ pc = "idle"
  /\ call = NoCall
  /\ steps = <<>>
  /\ fsOps = <<>>
  /\ outcome = NoOutcome
  /\ multi = NoMulti
  /\ ncalls = 0
  /\ started = <<>>
  /\ suspended = [i \in {} |-> NoCall]
  /\ running = 0

(***************************************************************************)
(* ExportStrategy.export, one action per turn of the event loop.           *)
(***************************************************************************)
\* The call of strategy.export(data, options) on a strategy of class cls whose
\* this.options is selfOptions, up to its first suspension: the merge,
\* validate and the body of transform.
EnterExport(entry, format, perCall, cls, selfOptions, data, options, behaviour) ==
  LET config == StrategyConfig(selfOptions, options)
      base == [entry |-> entry, format |-> format, perCall |-> perCall, cls |-> cls,
               selfOptions |-> selfOptions, options |-> options, config |-> config,
               data |-> data, behaviour |-> behaviour, clock |-> now,
               dataAfter |-> DataAfterTransform(cls, data, config, now)]
      v == Validate(cls, data)
      t == Transform(cls, data, config, now, behaviour)
  IN
  /\ fsOps' = <<>>
  /\ IF ~v.ok
       THEN /\ steps' = <<"validate">>
            /\ call' = [base EXCEPT !.dataAfter = data]
            /\ pc' = "threw"
            /\ outcome' = Threw(v.error, "validate")
     ELSE IF ~t.ok
       THEN /\ steps' = <<"validate", "transform">>
            /\ call' = base
            /\ pc' = "threw"
            /\ outcome' = Threw(t.error, "transform")
     ELSE /\ steps' = <<"validate", "transform">>
          /\ call' = Merge(base, [transformed |-> t.value])
          /\ pc' = "generate"
          /\ outcome' = NoOutcome

\* Generate with a plausible slip: a failure of generateContent is swallowed and
\* the call goes on to persist-or-return with an empty content
GenerateIgnoringFailure ==
  /\ pc = "generate"
  /\ LET g == GenerateContent(call.cls, call.transformed, call.config, call.behaviour) IN
     /\ steps' = Append(steps, "generateContent")
     /\ call' = Merge(call, [content |-> IF g.ok THEN g.value ELSE <<>>])
     /\ pc' = "persist"
     /\ outcome' = outcome
  /\ UNCHANGED <<registryVars, defaultOptions, taskVars, now, fsVars, fsOps, multi, ncalls>>

\* Generate with a plausible slip: a call through the facade looks its
\* strategy up again when it resumes, instead of keeping the instance it created
\* when it started
GenerateWithRegisteredClass ==
  /\ pc = "generate"
  /\ LET cls == IF call.entry = "facade"
                  THEN FactoryCreate(strategies, call.format, call.options).value.cls
                  ELSE call.cls
         g == GenerateContent(cls, call.transformed, call.config, call.behaviour)
     IN
     /\ steps' = Append(steps, "generateContent")
     /\ IF g.ok
          THEN /\ call' = Merge(call, [content |-> g.value])
               /\ pc' = "persist"
               /\ outcome' = outcome
          ELSE /\ call' = call
               /\ pc' = "threw"
               /\ outcome' = Threw(g.error, "generateContent")
  /\ UNCHANGED <<registryVars, defaultOptions, taskVars, now, fsVars, fsOps, multi, ncalls>>

\* the call resumes after `await this.transform`: the body of generateContent
Generate ==
  /\ pc = "generate"
  /\ LET g == GenerateContent(call.cls, call.transformed, call.config, call.behaviour) IN
     /\ steps' = Append(steps, "generateContent")
     /\ IF g.ok
          THEN /\ call' = Merge(call, [content |-> g.value])
               /\ pc' = "persist"
               /\ outcome' = outcome
          ELSE /\ call' = call
               /\ pc' = "threw"
               /\ outcome' = Threw(g.error, "generateContent")
  /\ UNCHANGED <<registryVars, defaultOptions, taskVars, now, fsVars, fsOps, multi, ncalls>>

\* PersistOrReturn with a plausible slip: the output path is read from the
\* per-call options instead of the merged configuration
PersistOrReturnFromCallOptions ==
  /\ pc = "persist"
  /\ IF Truthy(Get(call.options, "outputPath"))
       THEN /\ steps' = Append(steps, "saveToFile")
            /\ fsOps' = Append(fsOps,
                 [op |-> "mkdir", path |-> Dirname(Get(call.config, "outputPath").v)])
            /\ pc' = "mkdir"
            /\ outcome' = outcome
       ELSE /\ steps' = Append(steps, "return")
            /\ fsOps' = fsOps
            /\ pc' = "returned"
            /\ outcome' = Returned("content", call.content)
  /\ UNCHANGED <<registryVars, defaultOptions, taskVars, now, fsVars, call, multi, ncalls>>

\* the call resumes after `await this.generateContent`: saveToFile starts with
\* fs.mkdir when config.outputPath is set, else the content is returned
PersistOrReturn ==
  /\ pc = "persist"
  /\ IF Truthy(Get(call.config, "outputPath"))
       THEN /\ steps' = Append(steps, "saveToFile")
            /\ fsOps' = Append(fsOps,
                 [op |-> "mkdir", path |-> Dirname(Get(call.config, "outputPath").v)])
            /\ pc' = "mkdir"
            /\ outcome' = outcome
       ELSE /\ steps' = Append(steps, "return")
            /\ fsOps' = fsOps
            /\ pc' = "returned"
            /\ outcome' = Returned("content", call.content)
  /\ UNCHANGED <<registryVars, defaultOptions, taskVars, now, fsVars, call, multi, ncalls>>

FileSystemError == [name |-> "FileSystemError", message |-> "Failed to save file"]

\* fs.mkdir(dirname(outputPath), {recursive: true}) completes: the directory
\* exists and fs.writeFile is issued, or it fails and saveToFile throws
MkdirDone ==
  /\ pc = "mkdir"
  /\ \/ /\ dirs' = dirs \cup {Dirname(Get(call.config, "outputPath").v)}
        /\ fsOps' = Append(fsOps,
             [op |-> "writeFile", path |-> Get(call.config, "outputPath").v,
              content |-> call.content,
              encoding |-> WriteEncoding(call.selfOptions, call.config)])
        /\ pc' = "writeFile"
        /\ outcome' = outcome
     \/ /\ dirs' = dirs
        /\ fsOps' = fsOps
        /\ pc' = "threw"
        /\ outcome' = Threw(FileSystemError, "saveToFile")
  /\ UNCHANGED <<registryVars, defaultOptions, taskVars, now, files, call, steps, multi, ncalls>>

\* fs.writeFile(outputPath, content, encoding) completes: the file holds the
\* content and export returns the path; or it fails before the file is opened;
\* or it fails after the file was opened for writing, which truncated it
WriteFileDone ==
  /\ pc = "writeFile"
  /\ LET path == Get(call.config, "outputPath").v
         encoding == WriteEncoding(call.selfOptions, call.config)
     IN
     \/ /\ files' = MapSet(files, path, [content |-> call.content, encoding |-> encoding])
        /\ steps' = Append(steps, "return")
        /\ pc' = "returned"
        /\ outcome' = Returned("path", path)
     \/ /\ files' = files
        /\ steps' = steps
        /\ pc' = "threw"
        /\ outcome' = Threw(FileSystemError, "saveToFile")
     \/ /\ files' = MapSet(files, path, [content |-> <<>>, encoding |-> encoding])
        /\ steps' = steps
        /\ pc' = "threw"
        /\ outcome' = Threw(FileSystemError, "saveToFile")
  /\ UNCHANGED <<registryVars, defaultOptions, taskVars, now, dirs, call, fsOps, multi, ncalls>>

\* a direct call strategy.export(data, options) on new cls(ctorOptions)
StrategyExport(cls, ctorOptions, data, options, behaviour) ==
  /\ Idle
  /\ ncalls < MaxCalls
  /\ ExtendsExportStrategy(cls)
  /\ EnterExport("strategy", <<>>, options, cls, Construct(cls, ctorOptions).value,
                 data, options, behaviour)
  /\ multi' = NoMulti
  /\ ncalls' = ncalls + 1
  /\ UNCHANGED <<registryVars, defaultOptions, taskVars, now, fsVars>>

\* the clock advances between calls (a call reads it only in the turn in which
\* it starts)
Tick ==
  /\ Idle
  /\ now < MaxClock
  /\ now' = now + 1
  /\ UNCHANGED <<registryVars, defaultOptions, taskVars, fsVars, pc, call, steps, fsOps,
                 outcome, multi, ncalls>>

(***************************************************************************)
(* ExportStrategyFactory operations.                                       *)
(***************************************************************************)
\* factory.register(format, cls), also reached through
\* DataExporter.registerStrategy
Register(format, cls) ==
  /\ Len(regLog) < 2 + MaxRegister
  /\ LET r == FactoryRegister(strategies, format, cls) IN
     IF r.ok
       THEN /\ strategies' = r.value
            /\ regLog' = Append(regLog, <<format, cls>>)
            /\ lastRegister' = [kind |-> "done", format |-> format, cls |-> cls,
                                threw |-> FALSE, before |-> strategies,
                                after |-> r.value]
       ELSE /\ strategies' = strategies
            /\ regLog' = regLog
            /\ lastRegister' = [kind |-> "done", format |-> format, cls |-> cls,
                                threw |-> TRUE, before |-> strategies,
                                after |-> strategies]
  /\ lastCreate' = [kind |-> "none"]
  /\ UNCHANGED <<defaultOptions, taskVars, now, fsVars, pc, call, steps, fsOps, outcome,
                 multi, ncalls>>

\* factory.create(format, options); lastCreate keeps the result until the next
\* register call
Create(format, options) ==
  /\ lastCreate' = [kind |-> "done", format |-> format,
                    result |-> FactoryCreate(strategies, format, options)]
  /\ UNCHANGED <<strategies, regLog, lastRegister, defaultOptions, taskVars, now, fsVars, pc,
                 call, steps, fsOps, outcome, multi, ncalls>>

(***************************************************************************)
(* DataExporter operations.                                                *)
(***************************************************************************)
\* The call of exporter.export(data, format, options) up to its first
\* suspension: the merge with the exporter defaults, the synthesized output
\* path, factory.create, and strategy.export up to its first suspension.
FacadeEnter(format, data, options, behaviour) ==
  LET config == FacadeConfig(defaultOptions, format, options, now)
      made == FactoryCreate(strategies, format, config)
      failed(error, step) ==
        /\ call' = [entry |-> "facade", format |-> format, perCall |-> options,
                    cls |-> "none", selfOptions |-> NoOptions, options |-> config,
                    config |-> config, data |-> data, behaviour |-> behaviour,
                    clock |-> now, dataAfter |-> data]
        /\ steps' = <<>>
        /\ fsOps' = <<>>
        /\ pc' = "threw"
        /\ outcome' = Threw(error, step)
  IN
  IF ~made.ok THEN failed(made.error, "create")
  ELSE IF ~ExtendsExportStrategy(made.value.cls)
    THEN failed([name |-> "TypeError", message |-> "strategy.export is not a function"],
                "export")
  ELSE EnterExport("facade", format, options, made.value.cls, made.value.options,
                   data, config, behaviour)

\* exporter.export(data, format, options); toJSON and toCSV are this call with
\* the format "json" and "csv"
FacadeExport(format, data, options, behaviour) ==
  /\ Idle
  /\ ncalls < MaxCalls
  /\ FacadeEnter(format, data, options, behaviour)
  /\ multi' = NoMulti
  /\ ncalls' = ncalls + 1
  /\ UNCHANGED <<registryVars, defaultOptions, taskVars, now, fsVars>>

\* exporter.toJSON(data, options)
ToJSON(data, options, behaviour) == FacadeExport(S_json, data, options, behaviour)

\* exporter.toCSV(data, options)
ToCSV(data, options, behaviour) == FacadeExport(S_csv, data, options, behaviour)

\* formatOptions of toMultiple: { ...options, ...options[format] }; `shared`
\* holds the option-named properties of options and byFormat its
\* format-named properties
FormatOptions(shared, byFormat, format) ==
  Merge(shared, IF format \in DOMAIN byFormat THEN byFormat[format] ELSE NoOptions)

\* what the loop body of toMultiple stores in results[format]
ResultOf(o) ==
  IF o.kind = "returned"
    THEN Str(o.value)
    ELSE [t |-> "errorDescriptor", error |-> o.error.message]

\* exporter.toMultiple(data, formats, options) up to its first suspension
ToMultiple(data, formats, shared, byFormat, behaviour) ==
  /\ Idle
  /\ ncalls < MaxCalls
  /\ ncalls' = ncalls + 1
  /\ IF Len(formats) = 0
       THEN /\ multi' = [active |-> FALSE, formats |-> formats, i |-> 0,
                         results |-> <<>>, attempts |-> <<>>]
            /\ pc' = "returned"
            /\ outcome' = [kind |-> "results", value |-> <<>>]
            /\ UNCHANGED <<call, steps, fsOps>>
       ELSE /\ multi' = [active |-> TRUE, formats |-> formats, i |-> 1,
                         results |-> <<>>, attempts |-> <<>>, data |-> data,
                         shared |-> shared, byFormat |-> byFormat,
                         behaviour |-> behaviour]
            /\ FacadeEnter(formats[1], data, FormatOptions(shared, byFormat, formats[1]),
                           behaviour)
  /\ UNCHANGED <<registryVars, defaultOptions, taskVars, now, fsVars>>

\* MultiResume with a plausible slip: no try/catch around the export, so the
\* first failing format ends toMultiple with that error
MultiResumeAbortOnError ==
  /\ multi.active
  /\ pc \in {"returned", "threw"}
  /\ LET format == multi.formats[multi.i]
         results == SetEntry(multi.results, format, ResultOf(outcome))
         attempts == Append(multi.attempts, outcome)
     IN
     IF pc = "threw"
       THEN /\ multi' = [multi EXCEPT !.active = FALSE, !.attempts = attempts]
            /\ UNCHANGED <<pc, outcome, call, steps, fsOps>>
     ELSE IF multi.i < Len(multi.formats)
       THEN /\ multi' = [multi EXCEPT !.i = multi.i + 1, !.results = results,
                                      !.attempts = attempts]
            /\ FacadeEnter(multi.formats[multi.i + 1], multi.data,
                           FormatOptions(multi.shared, multi.byFormat,
                                         multi.formats[multi.i + 1]),
                           multi.behaviour)
       ELSE /\ multi' = [multi EXCEPT !.active = FALSE, !.results = results,
                                      !.attempts = attempts]
            /\ pc' = "returned"
            /\ outcome' = [kind |-> "results", value |-> results]
            /\ UNCHANGED <<call, steps, fsOps>>
  /\ UNCHANGED <<registryVars, defaultOptions, taskVars, now, fsVars, ncalls>>

\* MultiResume with a plausible slip: the export is not awaited, so the loop
\* goes on with the next format while the export before it is still in flight
MultiResumeWithoutAwait ==
  /\ multi.active
  /\ pc \in {"returned", "threw"} \/ multi.i < Len(multi.formats)
  /\ LET format == multi.formats[multi.i]
         pending == pc \notin {"returned", "threw"}
         results == IF pending THEN multi.results
                    ELSE SetEntry(multi.results, format, ResultOf(outcome))
         attempts == IF pending THEN multi.attempts
                     ELSE Append(multi.attempts, outcome)
     IN
     IF multi.i < Len(multi.formats)
       THEN /\ multi' = [multi EXCEPT !.i = multi.i + 1, !.results = results,
                                      !.attempts = attempts]
            /\ FacadeEnter(multi.formats[multi.i + 1], multi.data,
                           FormatOptions(multi.shared, multi.byFormat,
                                         multi.formats[multi.i + 1]),
                           multi.behaviour)
       ELSE /\ multi' = [multi EXCEPT !.active = FALSE, !.results = results,
                                      !.attempts = attempts]
            /\ pc' = "returned"
            /\ outcome' = [kind |-> "results", value |-> results]
            /\ UNCHANGED <<call, steps, fsOps>>
  /\ UNCHANGED <<registryVars, defaultOptions, taskVars, now, fsVars, ncalls>>

\* toMultiple resumes after `await this.export(...)` returned or threw: the
\* result or the error descriptor is stored under the format, and the loop goes
\* on with the next format or toMultiple returns the results
MultiResume ==
  /\ multi.active
  /\ pc \in {"returned", "threw"}
  /\ LET format == multi.formats[multi.i]
         results == SetEntry(multi.results, format, ResultOf(outcome))
         attempts == Append(multi.attempts, outcome)
     IN
     IF multi.i < Len(multi.formats)
       THEN /\ multi' = [multi EXCEPT !.i = multi.i + 1, !.results = results,
                                      !.attempts = attempts]
            /\ FacadeEnter(multi.formats[multi.i + 1], multi.data,
                           FormatOptions(multi.shared, multi.byFormat,
                                         multi.formats[multi.i + 1]),
                           multi.behaviour)
       ELSE /\ multi' = [multi EXCEPT !.active = FALSE, !.results = results,
                                      !.attempts = attempts]
            /\ pc' = "returned"
            /\ outcome' = [kind |-> "results", value |-> results]
            /\ UNCHANGED <<call, steps, fsOps>>
  /\ UNCHANGED <<registryVars, defaultOptions, taskVars, now, fsVars, ncalls>>

(***************************************************************************)
(* Inputs of the model.                                                    *)
(***************************************************************************)
P_a == <<"/","o","/","a">>
P_s == <<"/","s">>
K_id == <<"i","d">>
K_u == <<"u">>
K_n == <<"n">>

\* {id: 1, u: {n: "A,b"}}
Record1 == Obj(<< <<K_id, Num(1)>>, <<K_u, Obj(<< <<K_n, Str(<<"A",",","b">>)>> >>)>> >>)

\* {n: 7n}: not JSON-serializable
BigIntRecord == Obj(<< <<K_n, BigInt(7)>> >>)

Datasets ==
  <<Null, Undefined, Num(0), Bool(FALSE), Str(<<>>),
    Num(5), Str(<<"a">>),
    Arr(<<>>), Obj(<<>>), Record1, Arr(<<Record1>>),
    Arr(<<Num(1), Num(2)>>), Arr(<<Record1, Null>>), BigIntRecord>>

StrategyClasses == <<"JsonExportStrategy", "CsvExportStrategy", "CustomStrategy">>

StrategyCtorOptions ==
  <<NoOptions, [outputPath |-> Str(P_s), encoding |-> Str(S_latin1)]>>

StrategyCallOptions ==
  <<NoOptions,
    [outputPath |-> Str(P_a)],
    [outputPath |-> Str(<<>>), includeMetadata |-> Bool(FALSE),
     prettify |-> Bool(FALSE), flattenObjects |-> Bool(FALSE)]>>

(***************************************************************************)
(* Specification of direct strategy calls: strategies constructed by the   *)
(* caller and exported with ExportStrategy.export.                         *)
(***************************************************************************)
InitStrategy == InitWith(NoOptions)

NextStrategy ==
  \/ \E c \in 1..Len(StrategyClasses), o \in 1..Len(StrategyCtorOptions),
        d \in 1..Len(Datasets), p \in 1..Len(StrategyCallOptions),
        b \in 1..Len(Behaviours) :
       /\ StrategyClasses[c] # "CustomStrategy" => b = 1
       /\ StrategyExport(StrategyClasses[c], StrategyCtorOptions[o], Datasets[d],
                         StrategyCallOptions[p], Behaviours[b])
  \/ Generate
  \/ PersistOrReturn
  \/ MkdirDone
  \/ WriteFileDone
  \/ Tick

SpecStrategy == InitStrategy /\ [][NextStrategy]_vars

(***************************************************************************)
(* Specification of the registry: register and create calls in any order,  *)
(* interleaved with in-memory exports through the facade.                  *)
(***************************************************************************)
RegistryIds == <<S_JSON, S_xml, S_csv>>
RegistryClasses == <<"CsvExportStrategy", "CustomStrategy", "PlainClass", "ExportStrategy">>
CreateFormats == <<S_json, S_JSON, S_Csv, S_xml>>
RegistryExportFormats == <<S_JSON, S_xml>>
InMemoryOptions == [outputDir |-> Str(<<>>)]

InitRegistry == InitWith(NoOptions)

NextRegistry ==
  \/ \E f \in 1..Len(RegistryIds), c \in 1..Len(RegistryClasses) :
       Register(RegistryIds[f], RegistryClasses[c])
  \/ \E f \in 1..Len(CreateFormats) : Create(CreateFormats[f], NoOptions)
  \/ \E f \in 1..Len(RegistryExportFormats) :
       FacadeExport(RegistryExportFormats[f], Record1, InMemoryOptions, Behaviours[1])
  \/ Generate
  \/ PersistOrReturn

SpecRegistry == InitRegistry /\ [][NextRegistry]_vars

(***************************************************************************)
(* Specification of the facade: export, toJSON, toCSV and toMultiple calls *)
(* on an exporter constructed with one of ExporterOptions.                 *)
(***************************************************************************)
F_users == <<"u",".","c">>
F_a == <<"a",".","j">>
D_r == <<"/","r">>

ExporterOptions ==
  <<NoOptions,
    [outputDir |-> Str(D_r), createTimestamp |-> Bool(FALSE), prettify |-> Bool(FALSE)],
    [outputDir |-> Str(<<>>), encoding |-> Str(S_latin1),
     includeMetadata |-> Bool(FALSE)]>>

FacadeDatasets == <<Arr(<<Record1>>), Null, Arr(<<Record1, Null>>), BigIntRecord>>
FacadeFormats == <<S_JSON, S_xml>>

FacadeCallOptions ==
  <<NoOptions,
    [prettify |-> Bool(TRUE), includeMetadata |-> Bool(FALSE)],
    [filename |-> Str(F_users)],
    [outputPath |-> Str(P_a)],
    [outputDir |-> Str(<<>>), delimiter |-> Str(<<";">>)]>>

MultiFormats == << <<S_json, S_xml>>, <<S_csv, S_JSON, S_csv>>, <<>> >>

NoFormatOptions == [f \in {} |-> NoOptions]

MultiOptions ==
  <<[shared |-> NoOptions, byFormat |-> NoFormatOptions],
    [shared |-> [filename |-> Str(F_users)], byFormat |-> NoFormatOptions],
    [shared |-> [outputDir |-> Str(<<>>)],
     byFormat |-> [f \in {S_json, S_csv} |->
                     IF f = S_json
                       THEN [prettify |-> Bool(FALSE), filename |-> Str(F_a),
                             outputDir |-> Str(D_r)]
                       ELSE [delimiter |-> Str(<<";">>)]]]>>

InitFacade == \E e \in 1..Len(ExporterOptions) : InitWith(ExporterOptions[e])

NextFacade ==
  \/ \E f \in 1..Len(FacadeFormats), d \in 1..Len(FacadeDatasets),
        p \in 1..Len(FacadeCallOptions) :
       FacadeExport(FacadeFormats[f], FacadeDatasets[d], FacadeCallOptions[p],
                    Behaviours[1])
  \/ \E d \in 1..Len(FacadeDatasets), p \in 1..Len(FacadeCallOptions) :
       ToJSON(FacadeDatasets[d], FacadeCallOptions[p], Behaviours[1])
  \/ \E d \in 1..Len(FacadeDatasets), p \in 1..Len(FacadeCallOptions) :
       ToCSV(FacadeDatasets[d], FacadeCallOptions[p], Behaviours[1])
  \/ \E d \in 1..Len(FacadeDatasets), f \in 1..Len(MultiFormats),
        p \in 1..Len(MultiOptions) :
       ToMultiple(FacadeDatasets[d], MultiFormats[f], MultiOptions[p].shared,
                  MultiOptions[p].byFormat, Behaviours[1])
  \/ MultiResume
  \/ Generate
  \/ PersistOrReturn
  \/ MkdirDone
  \/ WriteFileDone
  \/ Tick

SpecFacade == InitFacade /\ [][NextFacade]_vars

(***************************************************************************)
(* Properties of direct strategy calls (checked under SpecStrategy).       *)
(***************************************************************************)
IsPrefix(s, t) == Len(s) <= Len(t) /\ SubSeq(t, 1, Len(s)) = s

\* the two complete step orders of ExportStrategy.export
PersistOrder == <<"validate", "transform", "generateContent", "saveToFile", "return">>
ReturnOrder == <<"validate", "transform", "generateContent", "return">>

\* what the steps of the call in flight give when recomputed from its inputs
ValidateResult == Validate(call.cls, call.data)
ConfigOfCall == StrategyConfig(call.selfOptions, call.options)
ContentResult ==
  GenerateContent(call.cls, call.transformed, ConfigOfCall, call.behaviour)

\* C1: every ExportStrategy.export call runs validate, transform,
\* generateContent, then persist-or-return in that order; a step has started
\* only if the one before it succeeded; when a step fails its error is what the
\* call throws, and no later step runs.
C1_StepOrder ==
  call.entry # "none" =>
    /\ steps # <<>>
    /\ IsPrefix(steps, PersistOrder) \/ IsPrefix(steps, ReturnOrder)
    /\ Len(steps) >= 2 => ValidateResult.ok
    /\ Len(steps) >= 3 => "transformed" \in DOMAIN call
    /\ Len(steps) >= 4 => ContentResult.ok /\ call.content = ContentResult.value
    /\ outcome.kind = "threw" => pc = "threw"
    /\ pc = "threw" =>
         /\ outcome.kind = "threw"
         /\ outcome.step = steps[Len(steps)]
         /\ outcome.step = "validate" => outcome.error = ValidateResult.error
         /\ outcome.step = "generateContent" => outcome.error = ContentResult.error
    /\ pc = "returned" => steps \in {PersistOrder, ReturnOrder}
    /\ pc = "generate" => steps = <<"validate", "transform">>
    /\ pc = "persist" => steps = <<"validate", "transform", "generateContent">>
    /\ pc \in {"mkdir", "writeFile"} =>
         steps = <<"validate", "transform", "generateContent", "saveToFile">>

\* C1 witness: a call failed in generateContent after validate and transform
\* succeeded, and a call ran all four steps
C1_Witness ==
  /\ pc = "threw"
  /\ outcome.step = "generateContent"
  /\ steps = <<"validate", "transform", "generateContent">>
  /\ call.cls = "CsvExportStrategy"

\* the writeFile operations the call in flight has issued
WritesOfCall == {i \in 1..Len(fsOps) : fsOps[i].op = "writeFile"}

\* C2: a call whose merged configuration has a (non-empty) output path writes
\* the serialized content to exactly that path and returns the path; a call
\* whose merged configuration has none returns the content and issues no
\* file-system operation; a call that fails in validate, transform or
\* generateContent issues no file-system operation.
C2_PersistOrReturn ==
  call.entry # "none" =>
    /\ (pc = "returned" /\ Truthy(Get(ConfigOfCall, "outputPath"))) =>
         LET path == Get(ConfigOfCall, "outputPath").v IN
         /\ outcome = Returned("path", path)
         /\ path \in DOMAIN files
         /\ files[path].content = ContentResult.value
         /\ \A i \in WritesOfCall : fsOps[i].path = path
         /\ WritesOfCall # {}
    /\ (pc = "returned" /\ ~Truthy(Get(ConfigOfCall, "outputPath"))) =>
         outcome = Returned("content", ContentResult.value)
    /\ ~Truthy(Get(ConfigOfCall, "outputPath")) => fsOps = <<>>
    /\ (pc = "threw" /\ outcome.step \in {"validate", "transform", "generateContent"}) =>
         fsOps = <<>>

\* C2 witness: a call with an output path from the constructor options has
\* written its content and returned the path
C2_Witness ==
  /\ pc = "returned"
  /\ outcome.mode = "path"
  /\ "outputPath" \notin DOMAIN call.options
  /\ outcome.value \in DOMAIN files
  /\ Len(files[outcome.value].content) > 0

\* C8 (as claimed): base validation rejects a dataset exactly when it is null
\* or undefined.
C8_RejectsExactlyNullish ==
  call.entry # "none" =>
    ((/\ pc = "threw"
      /\ steps = <<"validate">>
      /\ outcome.error.message = "Data cannot be null or undefined")
     <=> call.data.t \in {"null", "undefined"})

\* is the dataset a bare scalar, or a sequence with an element that is no record
NotRecords(data) ==
  \/ data.t \notin {"object", "array"}
  \/ data.t = "array" /\ \E i \in 1..Len(data.v) : data.v[i].t # "object"

\* C9 (as claimed): CSV export of a bare scalar, or of a sequence with an
\* element that is not a record, fails at the validate step with the
\* validation error and runs no later step.
C9_CsvRejectsNonRecords ==
  (call.entry # "none" /\ call.cls = "CsvExportStrategy" /\ NotRecords(call.data)) =>
    /\ pc = "threw"
    /\ steps = <<"validate">>
    /\ outcome.error.name = "DataExportError"

(***************************************************************************)
(* Properties of the registry (checked under SpecRegistry).                *)
(***************************************************************************)
\* C5 (as claimed): register rejects every constructor that does not extend
\* ExportStrategy, and the rejected call leaves the registry as it was.
C5_RejectsNonConforming ==
  (lastRegister.kind = "done" /\ ~ExtendsExportStrategy(lastRegister.cls)) =>
    /\ lastRegister.threw
    /\ lastRegister.after = lastRegister.before

\* are two identifiers equal up to the case of their letters
SameLetter(a, b) ==
  \/ a = b
  \/ \E k \in 1..Len(UpperChars) :
       {a, b} = {UpperChars[k], LowerChars[k]}
EqualIgnoringCase(f, g) ==
  Len(f) = Len(g) /\ \A i \in 1..Len(f) : SameLetter(f[i], g[i])

\* the register calls so far under an identifier equal to f ignoring case
RegistrationsOf(f) == {i \in 1..Len(regLog) : EqualIgnoringCase(regLog[i][1], f)}
LastRegistrationOf(f) ==
  regLog[CHOOSE i \in RegistrationsOf(f) : \A j \in RegistrationsOf(f) : j <= i][2]

\* C6: create(f) fails with the unsupported-format error exactly when no
\* register call used an identifier equal to f ignoring case; otherwise it
\* instantiates the constructor of the most recent such register call.
C6_CreateLastWriteWins ==
  lastCreate.kind = "done" =>
    LET f == lastCreate.format
        r == lastCreate.result
        unsupported ==
          ~r.ok /\ r.error = [name |-> "DataExportError",
                              message |-> "Unsupported export format"]
    IN
    /\ unsupported <=> RegistrationsOf(f) = {}
    /\ RegistrationsOf(f) # {} =>
         IF r.ok THEN r.value.cls = LastRegistrationOf(f)
         ELSE r = Construct(LastRegistrationOf(f), NoOptions)

\* C6 witness: create("JSON") instantiated a class registered under "JSON"
\* after the default registration of "json", and create("xml") failed before
\* any registration of xml
C6_Witness ==
  /\ lastCreate.kind = "done"
  /\ \/ /\ lastCreate.format = S_json
        /\ lastCreate.result.ok
        /\ lastCreate.result.value.cls = "CustomStrategy"
        /\ Len(regLog) = 4
     \/ /\ lastCreate.format = S_xml
        /\ ~lastCreate.result.ok
        /\ Len(regLog) = 3

\* the formats listed are the lower-cased identifiers of the register calls so
\* far, json and csv among them
FormatsAreRegistered ==
  /\ GetAvailableFormats(strategies) =
       {ToLowerCase(regLog[i][1]) : i \in 1..Len(regLog)}
  /\ {S_json, S_csv} \subseteq GetAvailableFormats(strategies)

\* C7: in every reachable state getAvailableFormats returns exactly the
\* lower-cased identifiers of the register calls so far, json and csv among
\* them, and no step removes an identifier.
C7_Formats ==
  /\ []FormatsAreRegistered
  /\ [][GetAvailableFormats(strategies) \subseteq GetAvailableFormats(strategies')]_vars

\* C7 witness: after registrations under "JSON" and "xml", a create and an
\* export, the formats are json, csv and xml
C7_Witness ==
  /\ Len(regLog) = 4
  /\ \E i \in 3..4 : regLog[i][1] = S_JSON
  /\ GetAvailableFormats(strategies) = {S_json, S_csv, S_xml}
  /\ lastCreate.kind = "done"
  /\ pc = "returned"

(***************************************************************************)
(* Properties of the facade (checked under SpecFacade).                    *)
(***************************************************************************)
\* C3 (as claimed): on an exporter constructed with default options, a facade
\* call whose options omit filename and outputPath returns the generated
\* content and writes no file.
C3_InMemoryWithoutFilename ==
  (/\ defaultOptions = ExporterDefaultOptions(NoOptions)
   /\ call.entry = "facade"
   /\ "filename" \notin DOMAIN call.perCall
   /\ "outputPath" \notin DOMAIN call.perCall
   /\ pc = "returned"
   /\ outcome.kind = "returned") =>
    /\ outcome.mode = "content"
    /\ fsOps = <<>>

\* the toMultiple call has returned or thrown
MultiDone == multi.formats # <<>> /\ ~multi.active

\* the last attempt of toMultiple on format f
LastAttemptOf(f) ==
  multi.attempts[CHOOSE i \in 1..Len(multi.formats) :
                   /\ multi.formats[i] = f
                   /\ \A j \in 1..Len(multi.formats) : multi.formats[j] = f => j <= i]

\* C4: toMultiple never throws; it attempts every listed format, also after a
\* failure; the returned object has one entry per requested identifier, the
\* output string of the attempt or the descriptor {error: message} of its
\* error.
C4_ToMultipleIsolates ==
  /\ multi.active => Len(multi.attempts) = multi.i - 1
  /\ MultiDone =>
       /\ pc = "returned"
       /\ outcome = [kind |-> "results", value |-> multi.results]
       /\ Len(multi.attempts) = Len(multi.formats)
       /\ {multi.results[i][1] : i \in 1..Len(multi.results)} =
            {multi.formats[i] : i \in 1..Len(multi.formats)}
       /\ \A i, j \in 1..Len(multi.results) :
            multi.results[i][1] = multi.results[j][1] => i = j
       /\ \A i \in 1..Len(multi.results) :
            LET entry == multi.results[i][2]
                attempt == LastAttemptOf(multi.results[i][1])
            IN \/ /\ attempt.kind = "returned"
                  /\ entry = Str(attempt.value)
               \/ /\ attempt.kind = "threw"
                  /\ entry = [t |-> "errorDescriptor", error |-> attempt.error.message]

\* C4 witness: toMultiple returned after a failing format was followed by a
\* successful one, or a successful one by an unknown format
C4_Witness ==
  /\ MultiDone
  /\ Len(multi.attempts) >= 2
  /\ multi.attempts[1].kind = "threw"
  /\ multi.attempts[2].kind = "returned"

\* the value of option k by precedence: per-call, else exporter default, else
\* strategy default
Precedence(k) ==
  IF k \in DOMAIN call.perCall THEN call.perCall[k]
  ELSE IF k \in DOMAIN defaultOptions THEN defaultOptions[k]
  ELSE Get(GetDefaultOptions(call.cls), k)

OptionNames ==
  (DOMAIN call.perCall) \cup (DOMAIN defaultOptions)
    \cup (DOMAIN GetDefaultOptions(call.cls))

\* a facade call has reached the pipeline of its strategy
InPipeline == call.entry = "facade" /\ steps # <<>>

FacadeMerged == Merge(defaultOptions, call.perCall)

\* C11 (as claimed): when a facade export has no explicit outputPath, a
\* non-empty outputDir and createTimestamp enabled, the synthesized file name
\* contains the call-time timestamp (ISO-8601 with ':' and '.' replaced by
\* '-'), with a supplied filename as well as with the generated default name.
C11_TimestampInSynthesizedName ==
  (/\ InPipeline
   /\ ~Truthy(Get(FacadeMerged, "outputPath"))
   /\ Truthy(Get(FacadeMerged, "outputDir"))
   /\ Truthy(Get(FacadeMerged, "createTimestamp"))) =>
    Includes(Get(ConfigOfCall, "outputPath").v,
             ReplaceColonDot(ToISOString(call.clock)))

(***************************************************************************)
(* Properties of persistence (checked under SpecStrategy).                 *)
(***************************************************************************)
\* C12 (as claimed): when the persistence step of an export fails, the call
\* throws FileSystemError and the failing call has created or modified no
\* file.
C12_FailedPersistLeavesNoFile ==
  [][(pc \in {"mkdir", "writeFile"} /\ pc' = "threw") =>
       /\ outcome'.kind = "threw"
       /\ outcome'.error.name = "FileSystemError"
       /\ files' = files]_vars

(***************************************************************************)
(* Inputs and specification of the format strategies: in-memory exports    *)
(* with the JSON and the CSV strategy of datasets that exercise metadata,  *)
(* flattening, timestamps, null values and CSV quoting.                    *)
(***************************************************************************)
K_at == <<"a","t">>
K_x == <<"x">>
K_s == <<"s">>
K_t == <<"t">>
K_a == <<"a">>
K_b == <<"b">>
K_c == <<"c">>
K_ab == <<"a",",","b">>
S_NA == <<"N","/","A">>
S_epoch == <<"e","p","o","c","h">>

\* {id: 1, at: new Date(1000)}
DatedRecord == Obj(<< <<K_id, Num(1)>>, <<K_at, DateVal(1)>> >>)

\* {u: {at: new Date(2000)}}
NestedDateRecord == Obj(<< <<K_u, Obj(<< <<K_at, DateVal(2)>> >>)>> >>)

\* [{id: 1}, {x: null, id: 2}, {s: true}]
MixedKeyRecords ==
  Arr(<<Obj(<< <<K_id, Num(1)>> >>),
        Obj(<< <<K_x, Null>>, <<K_id, Num(2)>> >>),
        Obj(<< <<K_s, Bool(TRUE)>> >>)>>)

\* {x: null}
NullRecord == Obj(<< <<K_x, Null>> >>)

\* [{"a,b": 1}]
DelimiterKeyRecords == Arr(<<Obj(<< <<K_ab, Num(1)>> >>)>>)

\* [{s: 'q"\n', t: "a,b"}, {t: ""}]
QuotedRecords ==
  Arr(<<Obj(<< <<K_s, Str(<<"q", "\"", "\n">>)>>, <<K_t, Str(<<"a", ",", "b">>)>> >>),
        Obj(<< <<K_t, Str(<<>>)>> >>)>>)

\* {metadata: 1, id: 2}
MetadataKeyRecord == Obj(<< <<S_metadata, Num(1)>>, <<K_id, Num(2)>> >>)

\* {a: {b: {c: 1}}, c: 2}
DeepRecord ==
  Obj(<< <<K_a, Obj(<< <<K_b, Obj(<< <<K_c, Num(1)>> >>)>> >>)>>, <<K_c, Num(2)>> >>)

\* {t: [1, 2], s: false}
ListRecord == Obj(<< <<K_t, Arr(<<Num(1), Num(2)>>)>>, <<K_s, Bool(FALSE)>> >>)

\* {u: {n: 7n}}: validate of the JSON strategy rejects it, and the CSV
\* strategy fails to serialize it when it is not flattened
NestedBigIntRecord == Obj(<< <<K_u, BigIntRecord>> >>)

FormatDatasets ==
  <<Record1, Arr(<<Record1>>), DatedRecord, Arr(<<NestedDateRecord>>),
    MixedKeyRecords, NullRecord, DelimiterKeyRecords, QuotedRecords,
    MetadataKeyRecord, DeepRecord, ListRecord, Arr(<<>>), NestedBigIntRecord>>

FormatClasses == <<"JsonExportStrategy", "CsvExportStrategy">>

FormatCallOptions ==
  <<NoOptions,
    [includeMetadata |-> Bool(FALSE), prettify |-> Bool(FALSE),
     flattenObjects |-> Bool(FALSE), nullValue |-> Str(S_NA)],
    [includeMetadata |-> Bool(FALSE), maxDepth |-> Num(1),
     includeHeaders |-> Bool(FALSE)],
    [prettify |-> Bool(FALSE), maxDepth |-> Num(2), dateFormat |-> Str(S_epoch),
     nullValue |-> Str(S_NA)]>>

InitFormat == InitWith(NoOptions)

NextFormat ==
  \/ \E c \in 1..Len(FormatClasses), d \in 1..Len(FormatDatasets),
        p \in 1..Len(FormatCallOptions) :
       StrategyExport(FormatClasses[c], NoOptions, FormatDatasets[d],
                      FormatCallOptions[p], Behaviours[1])
  \/ Generate
  \/ PersistOrReturn
  \/ Tick

SpecFormat == InitFormat /\ [][NextFormat]_vars

(***************************************************************************)
(* Reading JSON text back (JSON.parse), for the round-trip property.       *)
(***************************************************************************)
\* the index of the first character at or after i that is not white space
RECURSIVE SkipWs(_, _)
SkipWs(s, i) ==
  IF i <= Len(s) /\ s[i] \in {" ", "\n"} THEN SkipWs(s, i + 1) ELSE i

DigitValue(c) == (CHOOSE k \in 1..Len(DigitChars) : DigitChars[k] = c) - 1
IsDigit(c) == \E k \in 1..Len(DigitChars) : DigitChars[k] = c

\* the character an escape sequence \c stands for
Unescape(c) ==
  CASE c = "n" -> "\n"
    [] c = "r" -> "\r"
    [] OTHER -> c

\* a string literal whose opening quote precedes index i
RECURSIVE ParseString(_, _, _)
ParseString(s, i, acc) ==
  IF s[i] = "\"" THEN [v |-> acc, i |-> i + 1]
  ELSE IF s[i] = "\\" THEN ParseString(s, i + 2, Append(acc, Unescape(s[i + 1])))
  ELSE ParseString(s, i + 1, Append(acc, s[i]))

\* a number literal of digits starting at index i
RECURSIVE ParseNumber(_, _, _)
ParseNumber(s, i, n) ==
  IF i <= Len(s) /\ IsDigit(s[i])
    THEN ParseNumber(s, i + 1, 10 * n + DigitValue(s[i]))
    ELSE [v |-> Num(n), i |-> i]

\* a JSON value starting at index i (white space skipped): the value and the
\* index after it
RECURSIVE ParseValue(_, _)
RECURSIVE ParseElements(_, _, _)
RECURSIVE ParseMembers(_, _, _)
ParseValue(s, i0) ==
  LET i == SkipWs(s, i0) IN
  CASE s[i] = "n" -> [v |-> Null, i |-> i + 4]
    [] s[i] = "t" -> [v |-> Bool(TRUE), i |-> i + 4]
    [] s[i] = "f" -> [v |-> Bool(FALSE), i |-> i + 5]
    [] s[i] = "\"" ->
         LET r == ParseString(s, i + 1, <<>>) IN [v |-> Str(r.v), i |-> r.i]
    [] s[i] = "[" -> ParseElements(s, SkipWs(s, i + 1), <<>>)
    [] s[i] = "{" -> ParseMembers(s, SkipWs(s, i + 1), <<>>)
    [] OTHER -> ParseNumber(s, i, 0)

\* the elements of an array up to its closing bracket
ParseElements(s, i, acc) ==
  IF s[i] = "]" THEN [v |-> Arr(acc), i |-> i + 1]
  ELSE IF s[i] = "," THEN ParseElements(s, SkipWs(s, i + 1), acc)
  ELSE LET r == ParseValue(s, i) IN
       ParseElements(s, SkipWs(s, r.i), Append(acc, r.v))

\* the members of an object up to its closing brace
ParseMembers(s, i, acc) ==
  IF s[i] = "}" THEN [v |-> Obj(acc), i |-> i + 1]
  ELSE IF s[i] = "," THEN ParseMembers(s, SkipWs(s, i + 1), acc)
  ELSE LET k == ParseString(s, i + 1, <<>>)
           r == ParseValue(s, SkipWs(s, k.i) + 1)
       IN ParseMembers(s, SkipWs(s, r.i), SetEntry(acc, k.v, r.v))

\* JSON.parse of a well-formed text
JsonParse(text) == ParseValue(text, 1).v

(***************************************************************************)
(* Properties of the JSON strategy (checked under SpecFormat).             *)
(***************************************************************************)
\* what a value reads back as after JSON.stringify and JSON.parse: a timestamp
\* comes back as its ISO-8601 string
RECURSIVE JsonImage(_)
JsonImage(x) ==
  CASE x.t = "date" -> Str(ToISOString(x.v))
    [] x.t = "array" -> Arr([i \in 1..Len(x.v) |-> JsonImage(x.v[i])])
    [] x.t = "object" ->
         Obj([i \in 1..Len(x.v) |-> <<x.v[i][1], JsonImage(x.v[i][2])>>])
    [] OTHER -> x

\* the entries other than the one named key
RECURSIVE Without(_, _)
Without(entries, key) ==
  IF Len(entries) = 0 THEN <<>>
  ELSE IF entries[1][1] = key THEN Without(Tail(entries), key)
  ELSE <<entries[1]>> \o Without(Tail(entries), key)

\* the dataset is a record or a sequence of records
IsRecordDataset(data) ==
  \/ data.t = "object"
  \/ data.t = "array" /\ \A i \in 1..Len(data.v) : data.v[i].t = "object"

\* a JSON export without output path has returned its text
JsonReturned ==
  /\ call.entry = "strategy"
  /\ call.cls = "JsonExportStrategy"
  /\ IsRecordDataset(call.data)
  /\ pc = "returned"
  /\ outcome.kind = "returned"
  /\ outcome.mode = "content"

WithMetadata == Truthy(Get(ConfigOfCall, "includeMetadata"))

JsonTransformed ==
  /\ call.entry = "strategy"
  /\ call.cls = "JsonExportStrategy"
  /\ IsRecordDataset(call.data)
  /\ "transformed" \in DOMAIN call

\* C14: with includeMetadata set, the metadata has format json, the fixed
\* exporter identifier and recordCount equal to the sequence length, or 1 for
\* a single record; a sequence is wrapped as {metadata, data} and a single
\* record gets metadata as a sibling of its fields.  With includeMetadata not
\* set, no metadata field is added.
C14_Metadata ==
  JsonTransformed =>
    LET T == call.transformed
        D == call.data
        m == GetProp(T, S_metadata)
    IN
    IF WithMetadata
      THEN /\ m.t = "object"
           /\ ObjectKeys(m) = <<S_exportedAt, S_format, S_recordCount, S_exporter>>
           /\ GetProp(m, S_exportedAt) = Str(ToISOString(call.clock))
           /\ GetProp(m, S_format) = Str(S_json)
           /\ GetProp(m, S_exporter) = Str(S_exporterId)
           /\ GetProp(m, S_recordCount) = Num(IF IsArray(D) THEN Len(D.v) ELSE 1)
           /\ IF IsArray(D)
                THEN T = Obj(<< <<S_metadata, m>>, <<S_data, D>> >>)
                ELSE /\ T.t = "object"
                     /\ Without(T.v, S_metadata) = Without(D.v, S_metadata)
      ELSE T = D

\* C14 witness: a sequence of three records and a single record of two fields
\* were transformed with metadata, the latter at a later clock value
C14_Witness ==
  /\ JsonTransformed
  /\ WithMetadata
  /\ \/ call.data = MixedKeyRecords
     \/ call.data = DatedRecord /\ call.clock > 0
  /\ pc = "returned"

(***************************************************************************)
(* Properties of the CSV strategy (checked under SpecFormat).              *)
(***************************************************************************)
\* a CSV export without output path, of a record or a non-empty sequence of
\* records, has returned its text
CsvReturned ==
  /\ call.entry = "strategy"
  /\ call.cls = "CsvExportStrategy"
  /\ IsRecordDataset(call.data)
  /\ call.data.t = "array" => Len(call.data.v) > 0
  /\ pc = "returned"
  /\ outcome.kind = "returned"
  /\ outcome.mode = "content"

\* the post-flatten records of the call
Rows == call.transformed.v

\* the union of the keys of the post-flatten records
KeyUnion ==
  UNION {{ObjectKeys(Rows[i])[j] : j \in 1..Len(ObjectKeys(Rows[i]))} :
           i \in 1..Len(Rows)}

\* where key k first appears: the first record that has it, and its position
\* among the keys of that record
FirstRecord(k) ==
  CHOOSE i \in 1..Len(Rows) :
    /\ HasKey(Rows[i].v, k)
    /\ \A j \in 1..(i - 1) : ~HasKey(Rows[j].v, k)
FirstPosition(k) ==
  CHOOSE j \in 1..Len(Rows[FirstRecord(k)].v) : Rows[FirstRecord(k)].v[j][1] = k
AppearsBefore(k1, k2) ==
  \/ FirstRecord(k1) < FirstRecord(k2)
  \/ FirstRecord(k1) = FirstRecord(k2) /\ FirstPosition(k1) < FirstPosition(k2)

\* the key union listed in order of first appearance
HeadersByFirstAppearance ==
  [n \in 1..Cardinality(KeyUnion) |->
     CHOOSE k \in KeyUnion :
       Cardinality({k2 \in KeyUnion : AppearsBefore(k2, k)}) = n - 1]

\* the text of record i under header k: the configured nullValue when the
\* record lacks the key or maps it to null
CellText(i, k) ==
  IF ~HasKey(Rows[i].v, k) \/ GetProp(Rows[i], k).t \in {"null", "undefined"}
    THEN Get(ConfigOfCall, "nullValue").v
    ELSE FormatCsvValue(GetProp(Rows[i], k), ConfigOfCall).value

\* the lines of the CSV text, given its headers
LinesFor(headers) ==
  (IF Truthy(Get(ConfigOfCall, "includeHeaders"))
     THEN <<Join(headers, Get(ConfigOfCall, "delimiter").v)>> ELSE <<>>)
  \o [i \in 1..Len(Rows) |->
        Join([n \in 1..Len(headers) |-> CellText(i, headers[n])],
             Get(ConfigOfCall, "delimiter").v)]

\* C15: the CSV headers are the union of the keys of the post-flatten records,
\* each once, in order of first appearance; every data row lists its values in
\* header order, with the configured nullValue for a key the record lacks or
\* maps to null; {x: null} with nullValue N/A gives "x\nN/A".
C15_HeaderUnionAndRows ==
  CsvReturned =>
    /\ outcome.value = Join(LinesFor(HeadersByFirstAppearance), <<"\n">>)
    /\ (/\ call.data = NullRecord
        /\ Get(ConfigOfCall, "nullValue") = Str(S_NA)
        /\ Truthy(Get(ConfigOfCall, "includeHeaders"))) =>
         outcome.value = <<"x", "\n", "N", "/", "A">>

\* C15 witness: records with different keys, one of them mapped to null, were
\* exported with headers and nullValue N/A
C15_Witness ==
  /\ CsvReturned
  /\ call.data = MixedKeyRecords
  /\ Get(ConfigOfCall, "nullValue") = Str(S_NA)
  /\ Truthy(Get(ConfigOfCall, "includeHeaders"))
  /\ HeadersByFirstAppearance = <<K_id, K_x, K_s>>

\* Reading CSV text with quoted fields honoured: inside quotes a doubled quote
\* is a quote character and delimiters and line breaks are data; outside, the
\* delimiter ends a field and a line break ends a row.  `field` and `row` are
\* the field and the row being read, `rows` the rows read so far.
RECURSIVE CsvScan(_, _, _, _, _, _, _)
CsvScan(s, i, delimiter, inQuotes, field, row, rows) ==
  IF i > Len(s) THEN Append(rows, Append(row, field))
  ELSE IF inQuotes
    THEN IF s[i] = "\"" /\ i < Len(s) /\ s[i + 1] = "\""
           THEN CsvScan(s, i + 2, delimiter, TRUE, Append(field, "\""), row, rows)
         ELSE IF s[i] = "\""
           THEN CsvScan(s, i + 1, delimiter, FALSE, field, row, rows)
         ELSE CsvScan(s, i + 1, delimiter, TRUE, Append(field, s[i]), row, rows)
  ELSE IF s[i] = "\""
    THEN CsvScan(s, i + 1, delimiter, TRUE, field, row, rows)
  ELSE IF s[i] = delimiter
    THEN CsvScan(s, i + 1, delimiter, FALSE, <<>>, Append(row, field), rows)
  ELSE IF s[i] = "\n"
    THEN CsvScan(s, i + 1, delimiter, FALSE, <<>>, <<>>, Append(rows, Append(row, field)))
  ELSE CsvScan(s, i + 1, delimiter, FALSE, Append(field, s[i]), row, rows)

\* the rows of a CSV text, each a sequence of fields
CsvRead(text, delimiter) == CsvScan(text, 1, delimiter, FALSE, <<>>, <<>>, <<>>)

\* the records of the dataset are flat: every value is a string, a number, a
\* boolean or null
IsFlat(data) ==
  LET records == IF IsArray(data) THEN data.v ELSE <<data>> IN
  \A i \in 1..Len(records) :
    \A j \in 1..Len(records[i].v) :
      records[i].v[j][2].t \in {"string", "number", "boolean", "null"}

\* the union of the keys of the records of the dataset
InputKeyUnion ==
  LET records == IF IsArray(call.data) THEN call.data.v ELSE <<call.data>> IN
  UNION {{records[i].v[j][1] : j \in 1..Len(records[i].v)} : i \in 1..Len(records)}

DefaultQuoting ==
  /\ Get(ConfigOfCall, "quoteStrings") = Bool(TRUE)
  /\ Get(ConfigOfCall, "escapeQuotes") = Bool(TRUE)
  /\ Get(ConfigOfCall, "delimiter") = Str(<<",">>)

\* C16 (as claimed): the CSV text of a sequence of flat records, read back as
\* CSV, has as many rows as records, plus one when headers are requested, and
\* every row, the header row included, has as many fields as there are keys in
\* the key union, also when keys or values contain the delimiter, a quote or a
\* line break.
C16_CsvShape ==
  (CsvReturned /\ IsFlat(call.data) /\ DefaultQuoting) =>
    LET read == CsvRead(outcome.value, ",")
        records == IF IsArray(call.data) THEN call.data.v ELSE <<call.data>>
    IN
    /\ Len(read) = Len(records)
                     + (IF Truthy(Get(ConfigOfCall, "includeHeaders")) THEN 1 ELSE 0)
    /\ \A r \in 1..Len(read) : Len(read[r]) = Cardinality(InputKeyUnion)

\* the timestamp-valued fields of a record as <<dotted path, instant>> pairs:
\* its own fields, and with `deep` those of its nested mappings
RECURSIVE DateFields(_, _, _)
DateFields(entries, prefix, deep) ==
  UNION {LET key == entries[i][1]
             value == entries[i][2]
             path == IF Len(prefix) > 0 THEN prefix \o <<".">> \o key ELSE key
         IN CASE value.t = "date" -> {<<path, value.v>>}
              [] value.t = "object" /\ deep -> DateFields(value.v, path, deep)
              [] OTHER -> {}
         : i \in 1..Len(entries)}

\* the index of header k in the header row
ColumnOf(headerRow, k) == CHOOSE n \in 1..Len(headerRow) : headerRow[n] = k

\* C17 (as claimed): in a CSV export with dateFormat iso every timestamp-valued
\* field of a record appears as a column named by its key, or dotted path when
\* nested, whose value is the ISO-8601 string of the timestamp, with
\* flattenObjects set as well as unset.
C17_TimestampColumns ==
  (/\ CsvReturned
   /\ Get(ConfigOfCall, "dateFormat") = Str(S_iso)
   /\ Truthy(Get(ConfigOfCall, "includeHeaders"))) =>
    LET read == CsvRead(outcome.value, ",")
        records == IF IsArray(call.data) THEN call.data.v ELSE <<call.data>>
        deep == Truthy(Get(ConfigOfCall, "flattenObjects"))
    IN
    \A i \in 1..Len(records) :
      \A f \in DateFields(records[i].v, <<>>, deep) :
        /\ \E n \in 1..Len(read[1]) : read[1][n] = f[1]
        /\ read[i + 1][ColumnOf(read[1], f[1])] = ToISOString(f[2])

\* is `key` the dot-joined path of keys from the root of a record with these
\* entries to the value `value`
RECURSIVE IsPathTo(_, _, _, _)
IsPathTo(entries, prefix, key, value) ==
  \E i \in 1..Len(entries) :
    LET path == IF Len(prefix) > 0 THEN prefix \o <<".">> \o entries[i][1]
                ELSE entries[i][1]
    IN \/ path = key /\ entries[i][2] = value
       \/ /\ entries[i][2].t = "object"
          /\ IsPathTo(entries[i][2].v, path, key, value)

\* the CSV strategy has flattened the records of the call
CsvFlattened ==
  /\ call.entry = "strategy"
  /\ call.cls = "CsvExportStrategy"
  /\ IsRecordDataset(call.data)
  /\ "transformed" \in DOMAIN call
  /\ Truthy(Get(ConfigOfCall, "flattenObjects"))
  /\ MaxDepthArg(ConfigOfCall) >= 1

\* C18 (as claimed): every key of a flattened row is the dot-joined path of
\* input keys from the record root to the value it maps to; no key of a nested
\* mapping appears without the prefix of its ancestors, also when the depth
\* bound stops the descent.
C18_FlattenedKeysArePaths ==
  CsvFlattened =>
    LET records == IF IsArray(call.data) THEN call.data.v ELSE <<call.data>> IN
    \A i \in 1..Len(records) :
      \A j \in 1..Len(Rows[i].v) :
        IsPathTo(records[i].v, <<>>, Rows[i].v[j][1], Rows[i].v[j][2])

(***************************************************************************)
(* The caller's dataset (checked under SpecFormat).                        *)
(***************************************************************************)
\* C19: no export, successful or failing, mutates the caller's dataset: after
\* the call every record has the same keys and values as before and a sequence
\* has the same elements in the same order; what transform returns is a new
\* structure.
C19_DatasetNotMutated ==
  call.entry # "none" =>
    /\ call.dataAfter = call.data
    /\ ("transformed" \in DOMAIN call /\ call.data.t \in {"object", "array"}) =>
         call.transformed =
           TransformedOnHeap(call.cls, call.data, ConfigOfCall, call.clock)

\* C19 witness: the JSON strategy has added metadata to a single record, the
\* CSV strategy has flattened nested records, and a call has failed after its
\* transform
C19_Witness ==
  /\ call.entry = "strategy"
  /\ \/ /\ call.cls = "JsonExportStrategy"
        /\ WithMetadata
        /\ call.data = Record1
        /\ pc = "returned"
        /\ HasKey(call.transformed.v, S_metadata)
     \/ /\ call.cls = "CsvExportStrategy"
        /\ call.data = NestedBigIntRecord
        /\ pc = "threw"
        /\ outcome.step = "generateContent"


(***************************************************************************)
(* Specification of concurrent calls: exports through the facade of one    *)
(* exporter, each left at its await points while other calls start or      *)
(* resume, strategies are registered, and callers write to the options     *)
(* objects they passed in.  pc, call, steps, fsOps and outcome describe the *)
(* call whose turn ran last; the other calls in flight are in `suspended`.  *)
(***************************************************************************)
MaxConcurrent == 2

ConcurrentExporterOptions == [outputDir |-> Str(<<>>), prettify |-> Bool(FALSE)]

\* the calls made: the format and the options object of each
ConcurrentCalls ==
  <<[format |-> S_json, options |-> [includeMetadata |-> Bool(FALSE)]],
    [format |-> S_csv,
     options |-> [outputPath |-> Str(P_a), delimiter |-> Str(<<";">>)]]>>

\* what a caller makes of its options object after the call has started
ScribbledOptions ==
  [prettify |-> Bool(TRUE), includeMetadata |-> Bool(TRUE),
   outputPath |-> Str(P_s), delimiter |-> Str(<<"|">>),
   flattenObjects |-> Bool(FALSE)]

ConcurrentRegistrations == << <<S_json, "CustomStrategy">> >>

\* the calls left at an await once another call takes its turn: the call that
\* ran last joins them unless it has completed
Parked ==
  IF running # 0 /\ pc \in {"generate", "persist", "mkdir", "writeFile"}
    THEN MapSet(suspended, running,
                [pc |-> pc, call |-> call, steps |-> steps, fsOps |-> fsOps])
    ELSE suspended

\* exporter.export(data, format, options) while other calls are in flight:
\* the turn runs up to the first await
ConcurrentExport(format, data, options) ==
  /\ ~multi.active
  /\ Len(started) < MaxConcurrent
  /\ FacadeEnter(format, data, options, Behaviours[1])
  /\ started' = Append(started,
       [options |-> options, given |-> options, format |-> format,
        merged |-> FacadeConfig(defaultOptions, format, options, now),
        registry |-> strategies, clock |-> now])
  /\ suspended' = Parked
  /\ running' = Len(started) + 1
  /\ multi' = NoMulti
  /\ ncalls' = ncalls + 1
  /\ UNCHANGED <<registryVars, defaultOptions, now, fsVars>>

\* the event loop takes up call i where it was left at its await
Resume(i) ==
  /\ i \in DOMAIN suspended
  /\ running' = i
  /\ pc' = suspended[i].pc
  /\ call' = suspended[i].call
  /\ steps' = suspended[i].steps
  /\ fsOps' = suspended[i].fsOps
  /\ outcome' = NoOutcome
  /\ suspended' = [j \in (DOMAIN Parked) \ {i} |-> Parked[j]]
  /\ UNCHANGED <<registryVars, defaultOptions, started, now, fsVars, multi, ncalls>>

\* the caller of call i writes to the options object it passed in
MutateOptions(i, options) ==
  /\ i \in 1..Len(started)
  /\ started[i].options = started[i].given
  /\ started' = [started EXCEPT ![i].options = options]
  /\ UNCHANGED <<registryVars, defaultOptions, suspended, running, now, fsVars, pc,
                 call, steps, fsOps, outcome, multi, ncalls>>

InitConcurrent == InitWith(ConcurrentExporterOptions)

NextConcurrent ==
  \/ \E c \in 1..Len(ConcurrentCalls) :
       ConcurrentExport(ConcurrentCalls[c].format, Arr(<<Record1>>),
                        ConcurrentCalls[c].options)
  \/ \E i \in 1..MaxConcurrent + 1 : Resume(i)
  \/ \E i \in 1..MaxConcurrent + 1 : MutateOptions(i, ScribbledOptions)
  \/ \E r \in 1..Len(ConcurrentRegistrations) :
       Register(ConcurrentRegistrations[r][1], ConcurrentRegistrations[r][2])
  \/ Generate
  \/ PersistOrReturn
  \/ MkdirDone
  \/ WriteFileDone

SpecConcurrent == InitConcurrent /\ [][NextConcurrent]_vars


(***************************************************************************)
(* Properties of concurrent calls (checked under SpecConcurrent).          *)
(***************************************************************************)
\* call i is in flight, or is the call that completed last
TaskLive(i) == i = running \/ i \in DOMAIN suspended
TaskCall(i) == IF i = running THEN call ELSE suspended[i].call
TaskFsOps(i) == IF i = running THEN fsOps ELSE suspended[i].fsOps

\* the merged configuration of call i as computed when the call started, from
\* the options object as it was then
ConfigAtMerge(i) == started[i].merged

\* the strategy call i created when it started
StrategyAtStart(i) ==
  FactoryCreate(started[i].registry, started[i].format, ConfigAtMerge(i)).value

\* at whatever step call i is, what it holds comes from the configuration and
\* the strategy of its start, and so does what its last turn produced: the
\* transformed data, the content, the file-system operations, the result
IsolatedTask(i) ==
  LET c == TaskCall(i)
      made == StrategyAtStart(i)
      config == StrategyConfig(made.options, ConfigAtMerge(i))
      path == Get(config, "outputPath")
  IN
  /\ c.options = ConfigAtMerge(i)
  /\ c.config = config
  /\ c.cls = made.cls
  /\ c.selfOptions = made.options
  /\ (i = running /\ pc = "generate") =>
       c.transformed =
         Transform(made.cls, c.data, config, started[i].clock, c.behaviour).value
  /\ (i = running /\ pc = "persist") =>
       c.content = GenerateContent(made.cls, c.transformed, config, c.behaviour).value
  /\ \A k \in 1..Len(TaskFsOps(i)) :
       TaskFsOps(i)[k].path =
         IF TaskFsOps(i)[k].op = "mkdir" THEN Dirname(path.v) ELSE path.v
  /\ (i = running /\ pc = "returned") =>
       outcome.value = IF Truthy(path) THEN path.v ELSE c.content

K_adotb == <<"a",".","b">>

\* {t: [{n: 1}], u: {t: [1, {n: 2}], s: []}}
SequencesRecord ==
  Obj(<< <<K_t, Arr(<<Obj(<< <<K_n, Num(1)>> >>)>>)>>,
         <<K_u, Obj(<< <<K_t, Arr(<<Num(1), Obj(<< <<K_n, Num(2)>> >>)>>)>>,
                       <<K_s, Arr(<<>>)>> >>)>> >>)

\* {a: {a: {a: {a: {t: [1]}}}}}
FiveDeepRecord ==
  Obj(<< <<K_a, Obj(<< <<K_a, Obj(<< <<K_a, Obj(<< <<K_a,
    Obj(<< <<K_t, Arr(<<Num(1)>>)>> >>)>> >>)>> >>)>> >>)>> >>)

\* {x: null, id: 0, s: "A,b", t: undefined, n: ""}
FlatScalarsRecord ==
  Obj(<< <<K_x, Null>>, <<K_id, Num(0)>>, <<K_s, Str(<<"A",",","b">>)>>,
         <<K_t, Undefined>>, <<K_n, Str(<<>>)>> >>)

\* {"a.b": 1, t: [[1], []]}
DottedKeyRecord ==
  Obj(<< <<K_adotb, Num(1)>>, <<K_t, Arr(<<Arr(<<Num(1)>>), Arr(<<>>)>>)>> >>)

FlattenDatasets ==
  <<ListRecord, SequencesRecord, FiveDeepRecord, FlatScalarsRecord,
    DottedKeyRecord, DeepRecord, Record1, MixedKeyRecords,
    Arr(<<ListRecord, FlatScalarsRecord>>), Arr(<<SequencesRecord, Record1>>)>>

FlattenCallOptions ==
  <<NoOptions, [maxDepth |-> Num(0)], [maxDepth |-> Num(1)], [maxDepth |-> Num(2)],
    [maxDepth |-> Num(4), includeHeaders |-> Bool(FALSE)]>>

InitFlatten == InitWith(NoOptions)

NextFlatten ==
  \/ \E d \in 1..Len(FlattenDatasets), p \in 1..Len(FlattenCallOptions) :
       StrategyExport("CsvExportStrategy", NoOptions, FlattenDatasets[d],
                      FlattenCallOptions[p], Behaviours[1])
  \/ Generate
  \/ PersistOrReturn

SpecFlatten == InitFlatten /\ [][NextFlatten]_vars

(***************************************************************************)
(* Properties of flattenObject (checked under SpecFlatten).                *)
(***************************************************************************)
\* `value && typeof value === "object" && !Array.isArray(value)` of a record
\* value that is no timestamp: a nested mapping
IsMapping(x) == x.t = "object"

\* the dot-joined texts of the chains of at most n keys that start at a key of
\* the mapping x and lead from mapping to nested mapping; no chain passes
\* through a sequence
RECURSIVE ChainsFrom(_, _)
ChainsFrom(x, n) ==
  IF n = 0 \/ ~IsMapping(x) THEN {}
  ELSE UNION {{x.v[i][1]} \cup {x.v[i][1] \o <<".">> \o c : c \in ChainsFrom(x.v[i][2], n - 1)}
              : i \in 1..Len(x.v)}

\* the chains of at most n keys that start at x or at a mapping nested in x
RECURSIVE AllChains(_, _)
AllChains(x, n) ==
  IF ~IsMapping(x) THEN {}
  ELSE ChainsFrom(x, n) \cup UNION {AllChains(x.v[i][2], n) : i \in 1..Len(x.v)}

\* the sequences that flattening reaches from the root of the mapping with
\* these entries within n levels, each with the dot-joined path to it
RECURSIVE ReachedSequences(_, _, _)
ReachedSequences(entries, prefix, n) ==
  IF Len(entries) = 0 \/ n = 0 THEN <<>>
  ELSE LET path == IF Len(prefix) > 0 THEN prefix \o <<".">> \o entries[1][1]
                   ELSE entries[1][1]
           value == entries[1][2]
           here == IF IsArray(value) THEN << <<path, value>> >>
                   ELSE IF IsMapping(value) /\ n > 1
                     THEN ReachedSequences(value.v, path, n - 1)
                   ELSE <<>>
       IN here \o ReachedSequences(Tail(entries), prefix, n)

\* the CSV strategy has run transform with flattenObjects set
FlattenApplied ==
  /\ call.entry = "strategy"
  /\ call.cls = "CsvExportStrategy"
  /\ "transformed" \in DOMAIN call
  /\ Truthy(Get(ConfigOfCall, "flattenObjects"))

\* the records handed to flattenObject, and its depth bound
FlattenInputs == IF IsArray(call.data) THEN call.data.v ELSE <<call.data>>
FlattenBound == MaxDepthArg(ConfigOfCall)

\* C21 (as claimed): flattenObject never descends into a sequence and never more
\* than maxDepth levels: every key of a flattened row is a chain of at most maxDepth
\* keys of nested mappings (none through a sequence), every sequence reached
\* within the bound is the value of its path key, unchanged, and with
\* maxDepth = 0 the row is the input record.
C21_FlattenBounded ==
  FlattenApplied =>
    \A i \in 1..Len(FlattenInputs) :
      LET r == FlattenInputs[i]
          row == call.transformed.v[i]
          reached == ReachedSequences(r.v, <<>>, FlattenBound)
      IN
      /\ FlattenBound = 0 => row = r
      /\ FlattenBound > 0 =>
           /\ \A j \in 1..Len(row.v) : row.v[j][1] \in AllChains(r, FlattenBound)
           /\ \A k \in 1..Len(reached) : GetProp(row, reached[k][1]) = reached[k][2]


\* a record whose values are scalars, null, undefined or sequences
IsFlatRecord(r) ==
  /\ r.t = "object"
  /\ \A j \in 1..Len(r.v) : r.v[j][2].t \notin {"object", "date"}

\* C22: flattening is idempotent on already-flat records: for every record r
\* whose values are scalars, null or sequences and every maxDepth, flatten(r)
\* has the keys and values of r, and flatten(flatten(r)) equals flatten(r).
C22_FlattenIdempotentOnFlat ==
  FlattenApplied =>
    \A i \in 1..Len(FlattenInputs) :
      IsFlatRecord(FlattenInputs[i]) =>
        LET row == call.transformed.v[i] IN
        /\ row = FlattenInputs[i]
        /\ FlattenObject(row, <<>>, FlattenBound, 0) = row

\* flat records with a sequence of sequences, a dotted key, null and undefined
\* values have been flattened with a bound of 1
C22_Witness ==
  /\ FlattenApplied
  /\ pc = "returned"
  /\ FlattenBound = 1
  /\ call.data = Arr(<<ListRecord, FlatScalarsRecord>>)
  /\ IsFlatRecord(call.data.v[2])
  /\ HasKey(call.transformed.v[1].v, K_t)


(***************************************************************************)
(* Order of the exports of toMultiple (checked under SpecFacade).          *)
(***************************************************************************)
\* the merged configuration of the export of the j-th requested format; the
\* exports of one toMultiple call read the same clock value
MultiConfig(j) ==
  FacadeConfig(defaultOptions, multi.formats[j],
               FormatOptions(multi.shared, multi.byFormat, multi.formats[j]),
               call.clock)

\* the path the export of the j-th requested format writes, if it persists
MultiTarget(j) == Get(MultiConfig(j), "outputPath")

\* the content the export of the j-th requested format generates
MultiContent(j) ==
  LET made == FactoryCreate(strategies, multi.formats[j], MultiConfig(j)).value
      config == StrategyConfig(made.options, MultiConfig(j))
      t == Transform(made.cls, multi.data, config, call.clock, multi.behaviour)
  IN GenerateContent(made.cls, t.value, config, multi.behaviour).value

\* a step of the toMultiple loop from one format to the next
NextFormatStarts == multi.active /\ multi'.active /\ multi'.i # multi.i

S_ascii == <<"a","s","c","i","i">>

EncodingCtorOptions == <<NoOptions, [encoding |-> Str(S_latin1)]>>

EncodingCallOptions ==
  <<[outputPath |-> Str(P_a)],
    [outputPath |-> Str(P_a), encoding |-> Str(S_latin1)],
    [outputPath |-> Str(P_s), encoding |-> Str(S_ascii), prettify |-> Bool(FALSE)]>>

EncodingDatasets == <<Record1, Arr(<<Record1>>), ListRecord>>

InitEncoding == InitWith(NoOptions)

NextEncoding ==
  \/ \E c \in 1..Len(FormatClasses), o \in 1..Len(EncodingCtorOptions),
        d \in 1..Len(EncodingDatasets), p \in 1..Len(EncodingCallOptions) :
       StrategyExport(FormatClasses[c], EncodingCtorOptions[o], EncodingDatasets[d],
                      EncodingCallOptions[p], Behaviours[1])
  \/ Generate
  \/ PersistOrReturn
  \/ MkdirDone
  \/ WriteFileDone

SpecEncoding == InitEncoding /\ [][NextEncoding]_vars

\* C24 (as claimed): when a strategy's export persists content, the file is
\* written with the encoding of the call's merged configuration: fs.writeFile
\* is issued with it, and the file written has it; an encoding in the per-call
\* options overrides the encoding given to the constructor.
C24_EncodingOfMergedConfig ==
  call.entry = "strategy" =>
    /\ \A k \in 1..Len(fsOps) :
         fsOps[k].op = "writeFile" => fsOps[k].encoding = Get(ConfigOfCall, "encoding")
    /\ (pc = "returned" /\ outcome.mode = "path") =>
         files[outcome.value].encoding = Get(ConfigOfCall, "encoding")


(***************************************************************************)
(* The fields of formatCsvValue (checked under SpecFormat).                *)
(***************************************************************************)
\* every quote character of s from position i on is one of a doubled pair
RECURSIVE QuotesDoubled(_, _)
QuotesDoubled(s, i) ==
  IF i > Len(s) THEN TRUE
  ELSE IF s[i] = "\""
    THEN i + 1 <= Len(s) /\ s[i + 1] = "\"" /\ QuotesDoubled(s, i + 2)
  ELSE QuotesDoubled(s, i + 1)

\* a CSV field: bare text without delimiter, quote or line break, or text in
\* one pair of quotes whose embedded quotes are doubled
WellFormedField(s, delimiter) ==
  \/ /\ ~Includes(s, delimiter)
     /\ \A i \in 1..Len(s) : s[i] \notin {"\"", "\n", "\r"}
  \/ /\ Len(s) >= 2
     /\ s[1] = "\""
     /\ s[Len(s)] = "\""
     /\ QuotesDoubled(SubSeq(s, 2, Len(s) - 1), 1)

\* C25 (as claimed): with quoteStrings and escapeQuotes set, every field that
\* formatCsvValue produces for a value of a row is a well-formed CSV field:
\* without delimiter, quote and line break, or in one pair of quotes with
\* every embedded quote doubled; for scalars, sequences and nested mappings.
C25_FieldsWellFormed ==
  (CsvReturned /\ DefaultQuoting) =>
    \A i \in 1..Len(Rows) :
      \A j \in 1..Len(Rows[i].v) :
        WellFormedField(FormatCsvValue(Rows[i].v[j][2], ConfigOfCall).value, <<",">>)


\* C26 (as claimed): in one toMultiple call that persists its outputs, two
\* distinct requested formats are never written to the same path: the paths
\* returned for two different formats differ, whatever shared options the call
\* passes.
C26_DistinctPathsPerFormat ==
  MultiDone =>
    \A i, j \in 1..Len(multi.formats) :
      (/\ multi.formats[i] # multi.formats[j]
       /\ multi.attempts[i].kind = "returned"
       /\ multi.attempts[j].kind = "returned"
       /\ multi.attempts[i].mode = "path"
       /\ multi.attempts[j].mode = "path") =>
        multi.attempts[i].value # multi.attempts[j].value

====
